---- MODULE Spec2Model ----
(***************************************************************************)
(* A model of the LiveSplit splits parser (run/parser/quick_livesplit.rs). *)
(* The parser pulls XML events one at a time; every action below is one    *)
(* loop iteration of one combinator, reading one event.  Texts are tuples  *)
(* of one-character strings, so that find, slicing, splitting and the      *)
(* numeric conversions are computed as the code computes them.             *)
(***************************************************************************)
EXTENDS Integers, Sequences, FiniteSets, TLC

\* ------------------------------------------------------------- bounds
\* The longest event stream before end-of-input.
MaxEvents == 9
\* The longest text the time-span specification enumerates.
MaxLen == 4

\* ------------------------------------------------- options and results
None == <<>>
Some(x) == <<x>>
IsSome(o) == Len(o) = 1
Unwrap(o) == o[1]

Ok(x) == [ok |-> TRUE, v |-> x, e |-> "none"]
Err(err) == [ok |-> FALSE, v |-> <<>>, e |-> err]

\* --------------------------------------------------------- text helpers
Digits == <<"0", "1", "2", "3", "4", "5", "6", "7", "8", "9">>
IsDigit(c) == \E i \in 1..10 : Digits[i] = c
DigitVal(c) == (CHOOSE i \in 1..10 : Digits[i] = c) - 1

\* str::find(c): the index of the first occurrence, counted from 1; 0 if none.
Find(text, c) ==
    IF \E i \in 1..Len(text) : text[i] = c
    THEN CHOOSE i \in 1..Len(text) :
            text[i] = c /\ \A j \in 1..(i - 1) : text[j] # c
    ELSE 0

\* &text[..i] and &text[i..] with Rust's 0-based byte offsets.
Prefix(text, n) == SubSeq(text, 1, n)
Suffix(text, n) == SubSeq(text, n + 1, Len(text))

\* str::split(sep): always at least one piece.
RECURSIVE Split(_, _)
Split(text, sep) ==
    LET i == Find(text, sep)
    IN IF i = 0 THEN <<text>>
       ELSE <<Prefix(text, i - 1)>> \o Split(Suffix(text, i), sep)

AllDigits(text) == \A i \in 1..Len(text) : IsDigit(text[i])

RECURSIVE DigitsValue(_)
DigitsValue(text) ==
    IF Len(text) = 0 THEN 0
    ELSE 10 * DigitsValue(Prefix(text, Len(text) - 1)) + DigitVal(text[Len(text)])

\* u32::from_str on the texts of the model (no '+', at most 9 digits).
ParseU32(text) ==
    IF Len(text) > 0 /\ Len(text) <= 9 /\ AllDigits(text)
    THEN Ok(DigitsValue(text)) ELSE Err("Int")

\* i32::from_str on the texts of the model.
ParseI32(text) ==
    IF Len(text) > 0 /\ text[1] = "-"
    THEN LET r == ParseU32(Suffix(text, 1))
         IN IF r.ok THEN Ok(0 - r.v) ELSE r
    ELSE ParseU32(text)

\* ------------------------------------------------------------ TimeSpan
\* A TimeSpan is <<w, f>>: w whole seconds (rounded down) plus f units of
\* 10^-FracDigits seconds, 0 <= f < Unit.
FracDigits == MaxLen
RECURSIVE Pow10(_)
Pow10(n) == IF n = 0 THEN 1 ELSE 10 * Pow10(n - 1)
Unit == Pow10(FracDigits)

TsZero == <<0, 0>>
TsAdd(a, b) == <<a[1] + b[1] + ((a[2] + b[2]) \div Unit), (a[2] + b[2]) % Unit>>
TsNeg(a) == IF a[2] = 0 THEN <<0 - a[1], 0>> ELSE <<0 - a[1] - 1, Unit - a[2]>>
TsMul(a, k) == <<k * a[1] + ((k * a[2]) \div Unit), (k * a[2]) % Unit>>
TsSeconds(n) == <<n, 0>>

\* f64::from_str on the texts of the model: [-] digits [. digits], with a digit
\* on at least one side of the point.
IsNegative(text) == Len(text) > 0 /\ text[1] = "-"
Unsigned(text) == IF IsNegative(text) THEN Suffix(text, 1) ELSE text
Signed(neg, mag) == IF neg THEN TsNeg(mag) ELSE mag
IntPart(body, dot) == IF dot = 0 THEN body ELSE Prefix(body, dot - 1)
FracPart(body, dot) == IF dot = 0 THEN <<>> ELSE Suffix(body, dot)
Decimal(neg, int, frac) ==
    IF /\ AllDigits(int) /\ AllDigits(frac)
       /\ Len(int) + Len(frac) > 0
       /\ Len(int) <= 9 /\ Len(frac) <= FracDigits
    THEN Ok(Signed(neg, <<DigitsValue(int),
                          DigitsValue(frac) * Pow10(FracDigits - Len(frac))>>))
    ELSE Err("Float")
UnsignedDecimal(neg, body, dot) == Decimal(neg, IntPart(body, dot), FracPart(body, dot))
SignedDecimal(neg, body) == UnsignedDecimal(neg, body, Find(body, "."))
ParseF64(text) == SignedDecimal(IsNegative(text), Unsigned(text))

\* TimeSpan::from_days
FromDays(d) == TsMul(d, 86400)

\* TimeSpan::from_str: an optional leading '-', then the pieces between ':'
\* folded as seconds = 60 * seconds + piece.
RECURSIVE FoldPieces(_, _)
FoldPiece(p, rest, acc) ==
    IF p.ok THEN FoldPieces(rest, TsAdd(TsMul(acc, 60), p.v)) ELSE Err("Time")
FoldPieces(pieces, acc) ==
    IF Len(pieces) = 0 THEN Ok(acc)
    ELSE FoldPiece(ParseF64(Head(pieces)), Tail(pieces), acc)

SignedSpan(neg, r) == IF r.ok /\ neg THEN Ok(TsNeg(r.v)) ELSE r
TimeSpanFromStr(text) ==
    SignedSpan(IsNegative(text), FoldPieces(Split(Unsigned(text), ":"), TsZero))

\* The day-qualified branch shared by time_span and time_span_opt: a day count
\* before the first '.', a time of day after it.
DaysPlusTime(days, time) ==
    IF ~days.ok THEN Err("Float")
    ELSE IF ~time.ok THEN time
    ELSE Ok(TsAdd(FromDays(days.v), time.v))
DayQualified(text, dot_index) ==
    DaysPlusTime(ParseF64(Prefix(text, dot_index - 1)),
                 TimeSpanFromStr(Suffix(text, dot_index)))

\* Whether the closure takes the day-qualified branch.
DotBeforeColon(dot_index, colon_index) ==
    dot_index # 0 /\ colon_index # 0 /\ dot_index < colon_index
MutTakesDayBranch(text) == Find(text, ".") # 0 /\ Find(text, ":") # 0
TakesDayBranch(text) == DotBeforeColon(Find(text, "."), Find(text, ":"))

\* The closure of time_span: the TimeSpan handed to f, or the error.
time_span(text) ==
    IF TakesDayBranch(text) THEN DayQualified(text, Find(text, "."))
    ELSE TimeSpanFromStr(text)

\* The closure of time_span_opt: the Option<TimeSpan> handed to f, or the error.
OkSome(r) == IF r.ok THEN Ok(Some(r.v)) ELSE r
MutTimeSpanOpt(text) ==
    OkSome(IF Len(text) = 0 THEN Ok(TsZero)
           ELSE IF TakesDayBranch(text) THEN DayQualified(text, Find(text, "."))
           ELSE TimeSpanFromStr(text))
time_span_opt(text) ==
    IF Len(text) = 0 THEN Ok(None)
    ELSE OkSome(IF TakesDayBranch(text) THEN DayQualified(text, Find(text, "."))
                ELSE TimeSpanFromStr(text))

\* parse_bool
MutParseBool(text) == IF text = <<"T", "r", "u", "e">> THEN Ok(TRUE) ELSE Ok(FALSE)
parse_bool(text) ==
    IF text = <<"T", "r", "u", "e">> THEN Ok(TRUE)
    ELSE IF text = <<"F", "a", "l", "s", "e">> THEN Ok(FALSE)
    ELSE Err("Bool")


\* -------------------------------------------------------------- Version
\* Version(u32, u32, u32, u32) with the derived lexicographic order.
Version(a, b, c, d) == <<a, b, c, d>>

MutVersionLess(a, b) == \E i \in 1..4 : a[i] < b[i]
VersionLess(a, b) ==
    \E i \in 1..4 : a[i] < b[i] /\ \A j \in 1..(i - 1) : a[j] = b[j]
VersionGE(a, b) == ~VersionLess(a, b)

Min(a, b) == IF a < b THEN a ELSE b

\* parse_version: the first four dot-separated pieces overwrite [1, 0, 0, 0].
parse_version(text) ==
    LET splits == Split(text, ".")
        n == Min(4, Len(splits))
        d == Version(1, 0, 0, 0)
    IN IF \E i \in 1..n : ~ParseU32(splits[i]).ok THEN Err("Int")
       ELSE Ok([i \in 1..4 |-> IF i <= n THEN ParseU32(splits[i]).v ELSE d[i]])

\* ------------------------------------------------------------- base64
B64Chars ==
    <<"A", "B", "C", "D", "E", "F", "G", "H", "I", "J", "K", "L", "M",
      "N", "O", "P", "Q", "R", "S", "T", "U", "V", "W", "X", "Y", "Z",
      "a", "b", "c", "d", "e", "f", "g", "h", "i", "j", "k", "l", "m",
      "n", "o", "p", "q", "r", "s", "t", "u", "v", "w", "x", "y", "z",
      "0", "1", "2", "3", "4", "5", "6", "7", "8", "9", "+", "/">>
IsB64(c) == \E i \in 1..64 : B64Chars[i] = c
B64Val(c) == (CHOOSE i \in 1..64 : B64Chars[i] = c) - 1

\* The bytes of a character of the model's texts in a str (UTF-8): two for
\* the next line U+0085 and the no-break space U+00A0, one for the others.
Utf8(c) ==
    IF c = "" THEN <<194, 133>>
    ELSE IF c = " " THEN <<194, 160>>
    ELSE IF IsB64(c)
    THEN LET v == B64Val(c)
         IN IF v < 26 THEN <<65 + v>>
            ELSE IF v < 52 THEN <<97 + (v - 26)>>
            ELSE IF v < 62 THEN <<48 + (v - 52)>>
            ELSE IF v = 62 THEN <<43>> ELSE <<47>>
    ELSE IF c = "=" THEN <<61>>
    ELSE IF c = "!" THEN <<33>>
    ELSE IF c = "." THEN <<46>>
    ELSE IF c = ":" THEN <<58>>
    ELSE IF c = "-" THEN <<45>>
    ELSE IF c = "/" THEN <<47>>
    ELSE IF c = "\t" THEN <<9>>
    ELSE IF c = "\n" THEN <<10>>
    ELSE IF c = "" THEN <<11>>
    ELSE IF c = "\f" THEN <<12>>
    ELSE IF c = "\r" THEN <<13>>
    ELSE <<32>>
\* The bytes of a text, in order: the halves are joined so that a text of a
\* few hundred characters needs a recursion of depth eight.
Bytes(text) ==
    LET RECURSIVE Part(_, _)
        Part(lo, hi) ==
            IF lo > hi THEN <<>>
            ELSE IF lo = hi THEN Utf8(text[lo])
            ELSE Part(lo, (lo + hi) \div 2) \o Part((lo + hi) \div 2 + 1, hi)
    IN Part(1, Len(text))

\* str::len: the length in bytes; Wide counts the two-byte characters among
\* the first k.
TwoBytes == {"", " "}
Wide(text, k) == Cardinality({i \in 1..k : text[i] \in TwoBytes})
ByteLen(text) == Len(text) + Wide(text, Len(text))
\* &s[n..]: the characters from byte n on.  CutsAt is the number of
\* characters before byte n, and is empty when byte n lies inside a
\* character, where the slice panics.
CutsAt(text, n) ==
    {k \in (n - Wide(text, Min(n, Len(text))))..Min(n, Len(text)) :
        k >= 0 /\ k + Wide(text, k) = n}
SliceFrom(text, n) == Suffix(text, CHOOSE k \in CutsAt(text, n) : TRUE)

\* The number of leading alphabet symbols of a text.
RECURSIVE LeadingSymbols(_)
LeadingSymbols(t) ==
    IF Len(t) = 0 \/ ~IsB64(t[1]) THEN 0 ELSE 1 + LeadingSymbols(Tail(t))

RECURSIVE DecodeQuads(_)
DecodeQuads(t) ==
    IF Len(t) = 0 THEN <<>>
    ELSE IF Len(t) = 2
    THEN <<(B64Val(t[1]) * 4 + (B64Val(t[2]) \div 16)) % 256>>
    ELSE IF Len(t) = 3
    THEN <<(B64Val(t[1]) * 4 + (B64Val(t[2]) \div 16)) % 256,
           ((B64Val(t[2]) % 16) * 16 + (B64Val(t[3]) \div 4)) % 256>>
    ELSE <<(B64Val(t[1]) * 4 + (B64Val(t[2]) \div 16)) % 256,
           ((B64Val(t[2]) % 16) * 16 + (B64Val(t[3]) \div 4)) % 256,
           ((B64Val(t[3]) % 4) * 64 + B64Val(t[4])) % 256>>
         \o DecodeQuads(Suffix(t, 4))

\* base64::decode with the standard alphabet and canonical padding.  The
\* input before the last group is whole quads of symbols; the last group is
\* `m` symbols followed by `pad`: padding is accepted only after two symbols
\* or more, holds '=' alone and completes the quad, and the bits of the last
\* symbol that belong to no byte are zero.
Base64Decode(text) ==
    LET n == Len(text)
        s == IF n = 0 THEN 0 ELSE IF n % 4 = 0 THEN n - 4 ELSE n - (n % 4)
        last == Suffix(text, s)
        m == LeadingSymbols(last)
        pad == Suffix(last, m)
    IN IF \E i \in 1..s : ~IsB64(text[i]) THEN Err("InvalidByte")
       ELSE IF Len(pad) > 0 /\ (m < 2 \/ \E i \in 1..Len(pad) : pad[i] # "=")
       THEN Err("InvalidByte")
       ELSE IF m = 1 THEN Err("InvalidLength")
       ELSE IF Len(last) % 4 # 0 THEN Err("InvalidPadding")
       ELSE IF \/ m = 2 /\ B64Val(last[2]) % 16 # 0
               \/ m = 3 /\ B64Val(last[3]) % 4 # 0
       THEN Err("InvalidLastSymbol")
       ELSE Ok(DecodeQuads(Prefix(text, s + m)))

\* ------------------------------------------------------------- image
ImageMinLen == 216
ImageOffset == 212
ImageTrimHead == 2
ImageTrimTail == 1

\* The tail of image after the text is read, str_buf measured and sliced
\* in bytes: "panic" when byte 212 lies inside a character or the slice
\* data[2..data.len() - 1] is out of order, else the bytes left in the
\* scratch buffer (result) and the value handed to f.
ImageDecoded(text) ==
    IF ByteLen(text) >= ImageMinLen /\ CutsAt(text, ImageOffset) # {}
    THEN LET r == Base64Decode(SliceFrom(text, ImageOffset))
         IN IF r.ok
            THEN SubSeq(r.v, ImageTrimHead + 1, Len(r.v) - ImageTrimTail)
            ELSE <<>>
    ELSE <<>>

ImagePanics(text) ==
    /\ ByteLen(text) >= ImageMinLen
    /\ \/ CutsAt(text, ImageOffset) = {}
       \/ /\ Base64Decode(SliceFrom(text, ImageOffset)).ok
          /\ Len(Base64Decode(SliceFrom(text, ImageOffset)).v)
                < ImageTrimHead + ImageTrimTail

\* What image passes to its callback f (line 168).
ImageHanded(text) == Bytes(text)

\* ----------------------------------------------------------- date-time
IsLeap(y) == (y % 4 = 0 /\ y % 100 # 0) \/ y % 400 = 0
DaysIn(y, m) ==
    IF m = 2 THEN (IF IsLeap(y) THEN 29 ELSE 28)
    ELSE IF m \in {4, 6, 9, 11} THEN 30 ELSE 31

\* White space before an item is skipped (str::trim_start, that is
\* char::is_whitespace): the space, the tab, the line feed, the vertical tab,
\* the form feed, the carriage return, the next line U+0085 and the no-break
\* space U+00A0.  The white space beyond U+00FF cannot be written in a text
\* of the model.
WhiteSpace == {" ", "\t", "\n", "\r", "\f", "", "", " "}
RECURSIVE TrimLeft(_)
TrimLeft(t) == IF Len(t) > 0 /\ t[1] \in WhiteSpace THEN TrimLeft(Tail(t)) ELSE t

\* The number of leading digits of a text, at most `width`.
RECURSIVE LeadingDigits(_, _)
LeadingDigits(t, width) ==
    IF width = 0 \/ Len(t) = 0 \/ ~IsDigit(t[1]) THEN 0
    ELSE 1 + LeadingDigits(Tail(t), width - 1)

\* A numeric field at the head of `text`: white space, then for %Y a sign,
\* then 1 to `width` digits, any number of them after a sign.  Gives the
\* value and the text left.
NumField(text, width, signed) ==
    LET t == TrimLeft(text)
        g == IF signed /\ Len(t) > 0 /\ t[1] \in {"+", "-"} THEN 1 ELSE 0
        k == LeadingDigits(Suffix(t, g), IF g = 1 THEN Len(t) ELSE width)
        v == DigitsValue(SubSeq(t, g + 1, g + k))
    IN IF k = 0 THEN [ok |-> FALSE, v |-> 0, rest |-> t]
       ELSE [ok |-> TRUE,
             v |-> IF g = 1 /\ t[1] = "-" THEN 0 - v ELSE v,
             rest |-> Suffix(t, g + k)]

\* The items of "%m/%d/%Y %T"; %T is %H:%M:%S.
DateFormat == <<"m", "/", "d", "/", "Y", " ", "H", ":", "M", ":", "S">>

\* The format applied item by item: the fields read, or <<>> on a mismatch
\* or on input left over.
RECURSIVE ScanItems(_, _, _)
ScanItems(t, fmt, acc) ==
    IF Len(fmt) = 0 THEN (IF Len(t) = 0 THEN acc ELSE <<>>)
    ELSE IF fmt[1] = " " THEN ScanItems(TrimLeft(t), Tail(fmt), acc)
    ELSE IF fmt[1] \in {"/", ":"}
    THEN (IF Len(t) > 0 /\ t[1] = fmt[1] THEN ScanItems(Tail(t), Tail(fmt), acc)
          ELSE <<>>)
    ELSE LET f == NumField(t, IF fmt[1] = "Y" THEN 4 ELSE 2, fmt[1] = "Y")
         IN IF f.ok THEN ScanItems(f.rest, Tail(fmt), Append(acc, f.v)) ELSE <<>>

\* The fields checked as a date and a time of day.
DateOf(q) ==
    IF /\ Len(q) = 6
       /\ q[1] \in 1..12
       /\ q[3] \in (0 - 262143)..262142
       /\ q[2] \in 1..DaysIn(q[3], q[1])
       /\ q[4] \in 0..23 /\ q[5] \in 0..59 /\ q[6] \in 0..60
    THEN Ok([year |-> q[3], month |-> q[1], day |-> q[2],
             hour |-> q[4], minute |-> q[5], second |-> q[6]])
    ELSE Err("Date")

\* parse_date_time: Utc.datetime_from_str(text, "%m/%d/%Y %T").
parse_date_time(text) == DateOf(ScanItems(text, DateFormat, <<>>))

\* ----------------------------------------------------------- attributes
\* An attribute list is a sequence of <<key, value>>.
\* The first attribute with the key, as parse_attributes finds it.
RECURSIVE FindAttr(_, _)
FindAttr(attrs, key) ==
    IF Len(attrs) = 0 THEN None
    ELSE IF Head(attrs)[1] = key THEN Some(Head(attrs)[2])
    ELSE FindAttr(Tail(attrs), key)

\* The closure f handed to an attribute reader, named by what it calls:
\* parse_version (line 598), t.parse() of an index (lines 476, 508, 519),
\* parse_bool (line 395), or the plain setter that attribute wraps (line 377).
CallF(f, t) ==
    CASE f = "parse_version" -> parse_version(t)
      [] f = "parse" -> ParseI32(t)
      [] f = "parse_bool" -> parse_bool(t)
      [] OTHER -> Ok(t)

\* optional_attribute_err(tag, key, f): Ok(None) when absent.
optional_attribute_err(attrs, key, f) ==
    LET a == FindAttr(attrs, key)
    IN IF IsSome(a)
       THEN (LET r == CallF(f, Unwrap(a)) IN IF r.ok THEN Ok(Some(r.v)) ELSE r)
       ELSE Ok(None)

\* attribute_err(tag, key, f): AttributeNotFound when absent.
MutAttributeErr(attrs, key, f) ==
    LET a == FindAttr(attrs, key)
    IN IF IsSome(a) THEN CallF(f, Unwrap(a)) ELSE Ok(<<>>)
attribute_err(attrs, key, f) ==
    LET a == FindAttr(attrs, key)
    IN IF IsSome(a) THEN CallF(f, Unwrap(a)) ELSE Err("AttributeNotFound")

\* attribute(tag, key, f): the text itself.
attribute(attrs, key) == attribute_err(attrs, key, "set")


\* ----------------------------------------------------------- data model
\* Time::new(), Segment::new(""), RunMetadata::new(), Run::new()
TimeNew == [real_time |-> None, game_time |-> None]
SegmentNew ==
    [name |-> <<>>, icon |-> <<>>, personal_best_split_time |-> None,
     best_segment_time |-> TimeNew, comparisons |-> {}, segment_history |-> {}]
MetadataNew ==
    [run_id |-> <<>>, platform_name |-> <<>>, uses_emulator |-> FALSE,
     region_name |-> <<>>, variables |-> <<>>]
RunNew ==
    [game_icon |-> <<>>, game_name |-> <<>>, category_name |-> <<>>,
     offset |-> TsZero, attempt_count |-> 0, attempts |-> <<>>,
     metadata |-> MetadataNew, segments |-> <<>>, custom_comparisons |-> {},
     path |-> None]

\* A map is a set of <<key, value>> with unique keys; insert overwrites.
MutMapPut(m, k, v) == m \cup {<<k, v>>}
MapPut(m, k, v) == {p \in m : p[1] # k} \cup {<<k, v>>}
MapKeys(m) == {p[1] : p \in m}

\* The locals of parse_attempt_history's closure (lines 537-541).
AttemptNew ==
    [index |-> None, started |-> None, started_synced |-> FALSE,
     ended |-> None, ended_synced |-> FALSE, pause_time |-> None]

\* Run::add_attempt_with_index
Attempt(time, index, started, ended, pause_time) ==
    [index |-> index, time |-> time, started |-> started, ended |-> ended,
     pause_time |-> pause_time]

\* AtomicDateTime::new
AtomicDateTime(t, synced) == [time |-> t, synced_with_atomic_clock |-> synced]

\* The path handed to parse.
SourcePath == Some(<<"p">>)

\* ---------------------------------------------------------- program state
\* stack: the combinators on the call stack, innermost last.  A frame is
\*   [k, cb, sink, depth]: k the combinator whose loop is reading ("base",
\*   "children", "text", "endimm", "skip"), cb the closure it was given, sink
\*   the receiver of a Time, depth the depth counter of end_tag.
\* result: what parse has returned so far.
VARIABLES stack, version, run, segment, time, att, index, var_name, var_value,
          str_buf, result,
          \* the document: the open elements, the number of events read and the
          \* event read last
          elems, nread, event,
          \* the time-span specification
          ts_text, ts_out,
          \* the version specification: the attributes of the root tag, and
          \* what the version gate made of them
          vs_attrs, vs_out,
          \* the pace analysis: an earlier snapshot of the attempt with its
          \* results, the snapshot, the wall clock read by
          \* AtomicDateTime::now(), and the results
          earlier, snap, clock, pace_out

prog == <<stack, version, run, segment, time, att, index, var_name, var_value,
          str_buf, result>>
doc == <<elems, nread, event>>
pacev == <<earlier, snap, clock, pace_out>>
tsv == <<ts_text, ts_out, vs_attrs, vs_out, pacev>>
vars == <<prog, doc, tsv>>

Pending == [status |-> "pending", error |-> "none", run |-> None]

Fresh ==
    [stack |-> <<>>, version |-> Version(1, 0, 0, 0), run |-> RunNew,
     segment |-> SegmentNew, time |-> TimeNew, att |-> AttemptNew, index |-> 0,
     var_name |-> <<>>, var_value |-> <<>>, str_buf |-> <<>>, result |-> Pending]

Cur ==
    [stack |-> stack, version |-> version, run |-> run, segment |-> segment,
     time |-> time, att |-> att, index |-> index, var_name |-> var_name,
     var_value |-> var_value, str_buf |-> str_buf, result |-> result]

Set(s) ==
    /\ stack' = s.stack /\ version' = s.version /\ run' = s.run
    /\ segment' = s.segment /\ time' = s.time /\ att' = s.att
    /\ index' = s.index /\ var_name' = s.var_name /\ var_value' = s.var_value
    /\ str_buf' = s.str_buf /\ result' = s.result

Frame(k, cb, sink) == [k |-> k, cb |-> cb, sink |-> sink, depth |-> 0]
Top(s) == s.stack[Len(s.stack)]
Push(s, f) == [s EXCEPT !.stack = Append(@, f)]
Pop(s) == [s EXCEPT !.stack = SubSeq(@, 1, Len(@) - 1)]

\* An Err propagated by `?` through every caller: the stack unwinds, every
\* local including the Run in progress is dropped and parse returns the error.
\* (version is kept in the final states, for the properties to read.)
MutFail(s, err) ==
    [Fresh EXCEPT !.version = s.version,
                  !.result = [status |-> "err", error |-> err, run |-> Some(s.run)]]
Fail(s, err) ==
    [Fresh EXCEPT !.version = s.version,
                  !.result = [status |-> "err", error |-> err, run |-> None]]

\* A panic unwinds the same way and parse does not return.
Panic(s) ==
    [Fresh EXCEPT !.version = s.version,
                  !.result = [status |-> "panic", error |-> "none", run |-> None]]

\* The end of parse (lines 651-653): run.set_path(path); Ok(run).
Finish(s) ==
    [Fresh EXCEPT !.version = s.version, !.result =
        [status |-> "ok", error |-> "none",
         run |-> Some([s.run EXCEPT !.path = SourcePath])]]

\* The combinators as callees: each call pushes the frame whose loop reads next.
text(s, cb, sink) == Push(s, Frame("text", cb, sink))
end_tag(s) == Push(s, Frame("skip", "", ""))
parse_children(s, cb, sink) == Push(s, Frame("children", cb, sink))
image(s, cb) == text(s, cb, "")
time_span_opt_into(s, cb) == text(s, cb, "")

\* time: a fresh Time filled by the children, then handed to the sink.
time_(s, sink) == parse_children([s EXCEPT !.time = TimeNew], "Time", sink)
\* time_old: one optional time span into the real-time slot.
MutTimeOld(s, sink) == parse_children([s EXCEPT !.time = TimeNew], "Time", sink)
time_old(s, sink) == text(s, "time_old", sink)

V130 == Version(1, 3, 0, 0)
V141 == Version(1, 4, 1, 0)
V150 == Version(1, 5, 0, 0)
V160 == Version(1, 6, 0, 0)

\* The 1.4.1.0 gate of SplitTime, BestSegmentTime and the history entries.
MutReadTimeGated(s, sink) ==
    IF sink = "BestSegmentTime" \/ VersionGE(s.version, V141) THEN time_(s, sink)
    ELSE time_old(s, sink)
ReadTimeGated(s, sink) ==
    IF VersionGE(s.version, V141) THEN time_(s, sink) ELSE time_old(s, sink)

\* The callbacks that receive a Time.
Deliver(s, sink, t) ==
    CASE sink = "SplitTime" ->
            [s EXCEPT !.segment.comparisons = MapPut(@, s.str_buf, t)]
      [] sink = "PersonalBestSplitTime" ->
            [s EXCEPT !.segment.personal_best_split_time = Some(t)]
      [] sink = "BestSegmentTime" ->
            [s EXCEPT !.segment.best_segment_time = t]
      [] sink = "SegmentHistory" ->
            [[s EXCEPT !.segment.segment_history = MapPut(@, s.index, t)]
                EXCEPT !.index = 0]
      [] sink = "RunHistory" ->
            [[s EXCEPT !.run.attempts =
                    Append(@, Attempt(t, s.index, None, None, None))]
                EXCEPT !.index = 0]


\* ------------------------------------------------------------- closures
\* The closure parse hands to parse_base (lines 594-649), on the root's open.
MutParseRoot(s, name, attrs) ==
    LET v == optional_attribute_err(attrs, "version", "parse_version")
    IN IF ~v.ok THEN Fail(s, v.e)
       ELSE parse_children(
               [s EXCEPT !.version =
                   IF IsSome(v.v) THEN Unwrap(v.v) ELSE Version(1, 0, 0, 0)],
               "Run", "")
ParseRoot(s, name, attrs) ==
    IF name = "Run"
    THEN LET v == optional_attribute_err(attrs, "version", "parse_version")
         IN IF ~v.ok THEN Fail(s, v.e)
            ELSE parse_children(
                    [s EXCEPT !.version =
                        IF IsSome(v.v) THEN Unwrap(v.v) ELSE Version(1, 0, 0, 0)],
                    "Run", "")
    ELSE Finish(s)

\* parse_attempt_history (lines 535-581), on the open of AttemptHistory.
parse_attempt_history(s) ==
    IF VersionGE(s.version, V150) THEN parse_children(s, "AttemptHistory", "")
    ELSE end_tag(s)

\* parse_run_history (lines 502-526), on the open of RunHistory.
MutParseRunHistory(s) == parse_children(s, "RunHistory", "")
parse_run_history(s) ==
    IF VersionGE(s.version, V150) THEN end_tag(s)
    ELSE parse_children(s, "RunHistory", "")

\* parse_metadata (lines 389-415), on the open of Metadata.
MutParseMetadata(s) == parse_children(s, "Metadata", "")
parse_metadata(s) ==
    IF VersionGE(s.version, V160) THEN parse_children(s, "Metadata", "")
    ELSE end_tag(s)

\* The closure over the children of Run (lines 602-646).
RunClosure(s, name, attrs) ==
    CASE name = "GameIcon" -> image(s, "GameIcon")
      [] name = "GameName" -> text(s, "GameName", "")
      [] name = "CategoryName" -> text(s, "CategoryName", "")
      [] name = "Offset" -> text(s, "Offset", "")
      [] name = "AttemptCount" -> text(s, "AttemptCount", "")
      [] name = "AttemptHistory" -> parse_attempt_history(s)
      [] name = "RunHistory" -> parse_run_history(s)
      [] name = "Metadata" -> parse_metadata(s)
      [] name = "Segments" -> parse_children(s, "Segments", "")
      [] OTHER -> end_tag(s)

\* The closure over the children of Segments (lines 625-639).
MutSegmentsClosure(s, name, attrs) ==
    IF name = "Segment"
    THEN parse_children([s EXCEPT !.segment = SegmentNew], "Segment", "")
    ELSE s
SegmentsClosure(s, name, attrs) ==
    IF name = "Segment"
    THEN parse_children([s EXCEPT !.segment = SegmentNew], "Segment", "")
    ELSE end_tag(s)

\* The SplitTimes branch of parse_segment (lines 431-453).
SplitTimesBranch(s) ==
    IF VersionGE(s.version, V130) THEN parse_children(s, "SplitTimes", "")
    ELSE end_tag(s)

\* The PersonalBestSplitTime branch of parse_segment (lines 454-461).
MutPersonalBestBranch(s) == end_tag(s)
PersonalBestBranch(s) ==
    IF VersionLess(s.version, V130) THEN time_old(s, "PersonalBestSplitTime")
    ELSE end_tag(s)

\* The closure of parse_segment over the children of a Segment (lines 427-491).
SegmentClosure(s, name, attrs) ==
    CASE name = "Name" -> text(s, "Name", "")
      [] name = "Icon" -> image(s, "Icon")
      [] name = "SplitTimes" -> SplitTimesBranch(s)
      [] name = "PersonalBestSplitTime" -> PersonalBestBranch(s)
      [] name = "BestSegmentTime" -> ReadTimeGated(s, "BestSegmentTime")
      [] name = "SegmentHistory" -> parse_children(s, "SegmentHistory", "")
      [] OTHER -> end_tag(s)

\* The closure over the children of SplitTimes (lines 433-450).
MutSplitTimesClosure(s, name, attrs) ==
    IF name = "SplitTime"
    THEN LET n == attribute(attrs, "name")
         IN IF ~n.ok THEN Fail(s, n.e)
            ELSE ReadTimeGated([s EXCEPT !.str_buf = n.v], "SplitTime")
    ELSE end_tag(s)
SplitTimesClosure(s, name, attrs) ==
    IF name = "SplitTime"
    THEN LET n == attribute(attrs, "name")
         IN IF ~n.ok THEN Fail(s, n.e)
            ELSE ReadTimeGated(
                    [s EXCEPT !.str_buf = n.v,
                              !.run.custom_comparisons = @ \cup {n.v}],
                    "SplitTime")
    ELSE end_tag(s)

\* The closures over the children of SegmentHistory (lines 473-488) and of
\* RunHistory (lines 505-525): a required integer id, then the Time.
HistoryClosure(s, sink, attrs) ==
    LET i == attribute_err(attrs, "id", "parse")
    IN IF ~i.ok THEN Fail(s, i.e)
       ELSE ReadTimeGated([s EXCEPT !.index = i.v], sink)

\* parse_attributes over an attempt's attributes (lines 543-556), in order.
RECURSIVE AttemptAttributes(_, _)
AttemptAttributes(attrs, a) ==
    IF Len(attrs) = 0 THEN Ok(a)
    ELSE LET k == Head(attrs)[1]
             v == Head(attrs)[2]
             rest == Tail(attrs)
         IN CASE k = "id" ->
                    (LET r == ParseI32(v)
                     IN IF r.ok
                        THEN AttemptAttributes(rest, [a EXCEPT !.index = Some(r.v)])
                        ELSE r)
              [] k = "started" ->
                    (LET r == parse_date_time(v)
                     IN IF r.ok
                        THEN AttemptAttributes(rest, [a EXCEPT !.started = Some(r.v)])
                        ELSE r)
              [] k = "isStartedSynced" ->
                    (LET r == parse_bool(v)
                     IN IF r.ok
                        THEN AttemptAttributes(rest, [a EXCEPT !.started_synced = r.v])
                        ELSE r)
              [] k = "ended" ->
                    (LET r == parse_date_time(v)
                     IN IF r.ok
                        THEN AttemptAttributes(rest, [a EXCEPT !.ended = Some(r.v)])
                        ELSE r)
              [] k = "isEndedSynced" ->
                    (LET r == parse_bool(v)
                     IN IF r.ok
                        THEN AttemptAttributes(rest, [a EXCEPT !.ended_synced = r.v])
                        ELSE r)
              [] OTHER -> AttemptAttributes(rest, a)

\* The closure over the children of AttemptHistory (lines 536-560).
MutAttemptHistoryClosure(s, name, attrs) ==
    LET a == AttemptAttributes(attrs, AttemptNew)
    IN IF ~a.ok THEN Fail(s, a.e)
       ELSE IF ~IsSome(a.v.index) THEN Fail(s, "AttributeNotFound")
       ELSE parse_children(
                [s EXCEPT !.att = [a.v EXCEPT !.started_synced = FALSE,
                                              !.ended_synced = FALSE],
                          !.time = TimeNew], "Attempt", "")
AttemptHistoryClosure(s, name, attrs) ==
    LET a == AttemptAttributes(attrs, AttemptNew)
    IN IF ~a.ok THEN Fail(s, a.e)
       ELSE IF ~IsSome(a.v.index) THEN Fail(s, "AttributeNotFound")
       ELSE parse_children([s EXCEPT !.att = a.v, !.time = TimeNew], "Attempt", "")

\* The closure over the children of one attempt (lines 560-570).
AttemptClosure(s, name, attrs) ==
    CASE name = "RealTime" -> time_span_opt_into(s, "RealTime")
      [] name = "GameTime" -> time_span_opt_into(s, "GameTime")
      [] name = "PauseTime" -> time_span_opt_into(s, "PauseTime")
      [] OTHER -> end_tag(s)

\* The closure of time over the children of a Time (lines 224-230).
TimeClosure(s, name, attrs) ==
    CASE name = "RealTime" -> time_span_opt_into(s, "RealTime")
      [] name = "GameTime" -> time_span_opt_into(s, "GameTime")
      [] OTHER -> end_tag(s)

\* The Platform branch of parse_metadata (lines 393-398).
PlatformBranch(s, attrs) ==
    LET b == attribute_err(attrs, "usesEmulator", "parse_bool")
    IN IF ~b.ok THEN Fail(s, b.e)
       ELSE text([s EXCEPT !.run.metadata.uses_emulator = b.v], "Platform", "")

\* The closure of parse_metadata over the children of Metadata (lines 390-412).
MetadataClosure(s, name, attrs) ==
    CASE name = "Run" ->
            (LET i == attribute(attrs, "id")
             IN IF ~i.ok THEN Fail(s, i.e)
                ELSE end_tag([s EXCEPT !.run.metadata.run_id = i.v]))
      [] name = "Platform" -> PlatformBranch(s, attrs)
      [] name = "Region" -> text(s, "Region", "")
      [] name = "Variables" -> parse_children(s, "Variables", "")
      [] OTHER -> end_tag(s)

\* The closure over the children of Variables (lines 402-409).
VariablesClosure(s, name, attrs) ==
    LET n == attribute(attrs, "name")
    IN IF ~n.ok THEN Fail(s, n.e)
       ELSE text([s EXCEPT !.var_name = n.v, !.var_value = <<>>], "Variable", "")

\* f(reader, tag) of parse_children, by the closure the frame was given.
Closure(s, f, name, attrs) ==
    CASE f.cb = "Run" -> RunClosure(s, name, attrs)
      [] f.cb = "Segments" -> SegmentsClosure(s, name, attrs)
      [] f.cb = "Segment" -> SegmentClosure(s, name, attrs)
      [] f.cb = "SplitTimes" -> SplitTimesClosure(s, name, attrs)
      [] f.cb = "SegmentHistory" -> HistoryClosure(s, "SegmentHistory", attrs)
      [] f.cb = "RunHistory" -> HistoryClosure(s, "RunHistory", attrs)
      [] f.cb = "AttemptHistory" -> AttemptHistoryClosure(s, name, attrs)
      [] f.cb = "Attempt" -> AttemptClosure(s, name, attrs)
      [] f.cb = "Time" -> TimeClosure(s, name, attrs)
      [] f.cb = "Metadata" -> MetadataClosure(s, name, attrs)
      [] f.cb = "Variables" -> VariablesClosure(s, name, attrs)

\* What the caller does once parse_children has returned Ok.
AfterChildren(s, f) ==
    CASE f.cb = "Run" -> Finish(s)
      [] f.cb = "Segment" ->
            [s EXCEPT !.run.segments = Append(@, s.segment), !.segment = SegmentNew]
      [] f.cb = "Attempt" ->
            [s EXCEPT
                !.run.attempts = Append(@,
                    Attempt(s.time, Unwrap(s.att.index),
                        IF IsSome(s.att.started)
                        THEN Some(AtomicDateTime(Unwrap(s.att.started), s.att.started_synced))
                        ELSE None,
                        IF IsSome(s.att.ended)
                        THEN Some(AtomicDateTime(Unwrap(s.att.ended), s.att.ended_synced))
                        ELSE None,
                        s.att.pause_time)),
                !.att = AttemptNew, !.time = TimeNew]
      [] f.cb = "Time" -> Deliver([s EXCEPT !.time = TimeNew], f.sink, s.time)
      [] OTHER -> s

\* The closures that receive a parsed value: the setter when the conversion
\* succeeded, the error propagated by `?` otherwise.
SetOffset(s, r) == IF r.ok THEN [s EXCEPT !.run.offset = r.v] ELSE Fail(s, r.e)
SetAttemptCount(s, r) ==
    IF r.ok THEN [s EXCEPT !.run.attempt_count = r.v] ELSE Fail(s, r.e)
SetRealTime(s, r) == IF r.ok THEN [s EXCEPT !.time.real_time = r.v] ELSE Fail(s, r.e)
SetGameTime(s, r) == IF r.ok THEN [s EXCEPT !.time.game_time = r.v] ELSE Fail(s, r.e)
SetPauseTime(s, r) == IF r.ok THEN [s EXCEPT !.att.pause_time = r.v] ELSE Fail(s, r.e)
WithRealTime(s, sink, r) ==
    IF r.ok THEN Deliver(s, sink, [TimeNew EXCEPT !.real_time = r.v])
    ELSE Fail(s, r.e)

\* f(text) of text_err, by the closure the frame was given.
TextCallback(s, f, t) ==
    CASE f.cb \in {"GameIcon", "Icon"} -> [s EXCEPT !.str_buf = t]
      [] f.cb = "GameName" -> [s EXCEPT !.run.game_name = t]
      [] f.cb = "CategoryName" -> [s EXCEPT !.run.category_name = t]
      [] f.cb = "Offset" -> SetOffset(s, time_span(t))
      [] f.cb = "AttemptCount" -> SetAttemptCount(s, ParseU32(t))
      [] f.cb = "RealTime" -> SetRealTime(s, time_span_opt(t))
      [] f.cb = "GameTime" -> SetGameTime(s, time_span_opt(t))
      [] f.cb = "PauseTime" -> SetPauseTime(s, time_span_opt(t))
      [] f.cb = "time_old" -> WithRealTime(s, f.sink, time_span_opt(t))
      [] f.cb = "Name" -> [s EXCEPT !.segment.name = t]
      [] f.cb = "Platform" -> [s EXCEPT !.run.metadata.platform_name = t]
      [] f.cb = "Region" -> [s EXCEPT !.run.metadata.region_name = t]
      [] f.cb = "Variable" -> [s EXCEPT !.var_value = t]

\* What the caller does once text (text_err) has returned Ok: the tail of
\* image (lines 162-169), add_variable (line 407), or nothing.
AfterText(s, f) ==
    CASE f.cb = "GameIcon" ->
            IF ImagePanics(s.str_buf) THEN Panic(s)
            ELSE [s EXCEPT !.run.game_icon = ImageHanded(s.str_buf)]
      [] f.cb = "Icon" ->
            IF ImagePanics(s.str_buf) THEN Panic(s)
            ELSE [s EXCEPT !.segment.icon = ImageHanded(s.str_buf)]
      [] f.cb = "Variable" ->
            [s EXCEPT !.run.metadata.variables = Append(@, <<s.var_name, s.var_value>>),
                      !.var_name = <<>>, !.var_value = <<>>]
      [] OTHER -> s


\* text_err after f(text)? (lines 133-139): on an immediate close it returns
\* Ok, after a text it breaks out of the loop into end_tag_immediately; an
\* error of f is returned as it is.
TextEnd(s, f) == IF s.result.status = "pending" THEN AfterText(Pop(s), f) ELSE s
TextBreak(s, f) ==
    IF s.result.status = "pending" THEN Push(Pop(s), [f EXCEPT !.k = "endimm"])
    ELSE s

\* ------------------------------------------------------------ documents
\* The event streams are those of documents of the LiveSplit schema (of every
\* version together), with unknown elements, missing and malformed attributes,
\* misplaced children and texts, comments, truncation and tokenizer errors.
T_A == <<"A">>
T_B == <<"B">>
T_x == <<"x">>
T_1 == <<"1">>
T_2 == <<"2">>
T_3 == <<"3">>
T_True == <<"T", "r", "u", "e">>
T_False == <<"F", "a", "l", "s", "e">>
T_Maybe == <<"M", "a", "y", "b", "e">>
T_12_5 == <<"1", "2", ".", "5">>
T_Day == <<"1", ".", "0", "2", ":", "3", "0", ":", "0", "0">>
T_Date ==
    <<"0", "1", "/", "0", "2", "/", "2", "0", "1", "7", " ",
      "0", "3", ":", "0", "4", ":", "0", "5">>
\* A date with single digits and a tab between the date and the time of day.
T_DateEnd ==
    <<"1", "/", "3", "/", "2", "0", "1", "7", "\t", "4", ":", "5", ":", "6">>

\* Image texts: short; long with a payload of 6 bytes, of 3 bytes, of 1 byte
\* and with a payload that is not base64; and one with a two-byte character
\* across byte 212.
Filler == [i \in 1..ImageOffset |-> "x"]
ImageTexts ==
    {<<"a", "b", "c">>,
     Filler \o <<"A", "A", "E", "C", "A", "w", "Q", "F">>,
     Filler \o <<"A", "A", "E", "C">>,
     Filler \o <<"A", "A", "=", "=">>,
     Filler \o <<"!", "!", "!", "!">>,
     SubSeq(Filler, 1, ImageOffset - 1) \o <<" ", "A", "A", "E", "C", "A", "w", "Q", "F">>}

TimeTexts == {T_12_5, T_Day, T_x}

VersionTexts ==
    {<<"1", ".", "3">>, <<"1", ".", "4", ".", "1">>, <<"1", ".", "5">>,
     <<"1", ".", "6", ".", "0", ".", "0">>, <<"1", ".", "x">>}

Elem(name, attrs) == [name |-> name, attrs |-> attrs]
Plain(names) == {Elem(n, <<>>) : n \in names}

IdAttrs == {<<>>, <<<<"id", T_1>>>>, <<<<"id", T_2>>>>, <<<<"id", T_x>>>>}

AttemptAttrs ==
    {<<>>,
     <<<<"id", T_1>>>>,
     <<<<"id", T_x>>, <<"isStartedSynced", T_Maybe>>>>,
     <<<<"isEndedSynced", T_Maybe>>>>,
     <<<<"id", T_2>>, <<"started", T_Date>>, <<"isStartedSynced", T_True>>>>,
     <<<<"isStartedSynced", T_True>>, <<"started", T_Date>>, <<"id", T_2>>>>,
     <<<<"id", T_1>>, <<"ended", T_x>>>>,
     <<<<"id", T_1>>, <<"started", T_Date>>, <<"ended", T_DateEnd>>>>,
     <<<<"isEndedSynced", T_True>>, <<"ended", T_DateEnd>>, <<"id", T_2>>,
       <<"started", T_Date>>>>,
     <<<<"id", T_1>>, <<"isStartedSynced", T_Maybe>>>>,
     <<<<"id", T_1>>, <<"started", T_Date>>, <<"isEndedSynced", T_Maybe>>>>,
     <<<<"started", T_Date>>>>,
     <<<<"isStartedSynced", T_False>>, <<"ended", T_DateEnd>>>>}

\* The elements a document may open next, below the open elements `es`.
ChildOffers(es) ==
    IF Len(es) = 0
    THEN {Elem("Run", <<>>), Elem("Splits", <<>>)}
            \cup {Elem("Run", <<<<"version", v>>>>) : v \in VersionTexts}
    ELSE LET top == es[Len(es)]
         IN CASE top = "Run" /\ Len(es) = 1 ->
                    Plain({"GameIcon", "GameName", "CategoryName", "Offset",
                           "AttemptCount", "AttemptHistory", "RunHistory",
                           "Metadata", "Segments", "AutoSplitterSettings"})
              [] top = "Segments" -> Plain({"Segment", "Unknown"})
              [] top = "Segment" ->
                    Plain({"Name", "Icon", "SplitTimes", "PersonalBestSplitTime",
                           "BestSegmentTime", "SegmentHistory", "Unknown"})
              [] top = "SplitTimes" ->
                    {Elem("SplitTime", <<>>), Elem("SplitTime", <<<<"name", T_A>>>>),
                     Elem("SplitTime", <<<<"id", T_1>>>>), Elem("Unknown", <<>>)}
              [] top \in {"SplitTime", "BestSegmentTime", "Time"} ->
                    Plain({"RealTime", "GameTime", "Unknown"})
              [] top \in {"SegmentHistory", "RunHistory"} ->
                    {Elem("Time", a) : a \in IdAttrs}
              [] top = "AttemptHistory" ->
                    {Elem("Attempt", a) : a \in AttemptAttrs}
              [] top = "Attempt" ->
                    Plain({"RealTime", "GameTime", "PauseTime", "Unknown"})
              [] top = "Metadata" ->
                    {Elem("Run", <<>>), Elem("Run", <<<<"id", T_A>>>>),
                     Elem("Platform", <<>>),
                     Elem("Platform", <<<<"usesEmulator", T_True>>>>),
                     Elem("Platform", <<<<"usesEmulator", T_Maybe>>>>),
                     Elem("Region", <<>>), Elem("Variables", <<>>),
                     Elem("Unknown", <<>>)}
              [] top = "Variables" ->
                    {Elem("Variable", <<>>), Elem("Variable", <<<<"name", T_A>>>>)}
              [] top \in {"Unknown", "AutoSplitterSettings", "Splits"} ->
                    Plain({"Unknown", "Segment"})
              [] OTHER -> Plain({"Unknown"})

\* The texts a document may hold directly below the open elements `es`.
TextOffers(es) ==
    LET top == es[Len(es)]
    IN CASE top \in {"GameIcon", "Icon"} -> ImageTexts
         [] top \in {"Offset", "RealTime", "GameTime", "PauseTime", "SplitTime",
                     "PersonalBestSplitTime", "BestSegmentTime", "Time"} -> TimeTexts
         [] top = "AttemptCount" -> {T_3, T_x}
         [] OTHER -> {T_A}

\* The texts a document may hold directly inside an element whose body is
\* meant to hold children: a bare time in place of RealTime / GameTime.
BodyTexts(es) ==
    IF es[Len(es)] \in {"SplitTime", "BestSegmentTime", "Time"} THEN {T_12_5, T_x}
    ELSE {}

\* ---------------------------------------------------------------- actions
Reading(k) ==
    /\ result.status = "pending"
    /\ Len(stack) > 0
    /\ stack[Len(stack)].k = k

More == nread < MaxEvents

Event(kind, name, attrs, t) == [kind |-> kind, name |-> name, attrs |-> attrs, text |-> t]
NoEvent == Event("None", "", <<>>, <<>>)

\* reader.read_event(buf) returning each kind of event.
ReadStart(o) ==
    /\ elems' = Append(elems, o.name) /\ nread' = nread + 1
    /\ event' = Event("Start", o.name, o.attrs, <<>>)
ReadEnd ==
    /\ elems' = SubSeq(elems, 1, Len(elems) - 1) /\ nread' = nread + 1
    /\ event' = Event("End", elems[Len(elems)], <<>>, <<>>)
ReadText(t) ==
    /\ elems' = elems /\ nread' = nread + 1
    /\ event' = Event("Text", "", <<>>, t)
ReadEof ==
    /\ elems' = elems /\ nread' = nread + 1
    /\ event' = Event("Eof", "", <<>>, <<>>)
ReadIgnored ==
    /\ elems' = elems /\ nread' = nread + 1
    /\ event' = Event("Other", "", <<>>, <<>>)
ReadError ==
    /\ elems' = elems /\ nread' = nread + 1
    /\ event' = Event("Error", "", <<>>, <<>>)

\* parse_base (lines 307-326): one iteration of its loop.
parse_base ==
    /\ Reading("base")
    /\ UNCHANGED tsv
    /\ \/ \E o \in ChildOffers(elems) :      \* Event::Start
            /\ More /\ Len(elems) = 0
            /\ Set(ParseRoot(Cur, o.name, o.attrs))
            /\ ReadStart(o)
       \/ /\ Set(Fail(Cur, "UnexpectedEndOfFile"))     \* Event::Eof
          /\ ReadEof
       \/ /\ More /\ Set(Cur) /\ ReadIgnored           \* any other event
       \/ /\ More /\ Set(Fail(Cur, "Xml")) /\ ReadError  \* read_event(buf)?

\* parse_children (lines 285-305): one iteration of its loop.
parse_children_step ==
    /\ Reading("children")
    /\ UNCHANGED tsv
    /\ \/ \E o \in ChildOffers(elems) :      \* Event::Start
            /\ More
            /\ Set(Closure(Cur, Top(Cur), o.name, o.attrs))
            /\ ReadStart(o)
       \/ /\ More                                       \* Event::End
          /\ Set(AfterChildren(Pop(Cur), Top(Cur)))
          /\ ReadEnd
       \/ \E t \in BodyTexts(elems) :                  \* Event::Text, Event::CData
            /\ More /\ Set(Cur) /\ ReadText(t)        \* fall under `_ => {}`
       \/ /\ Set(Fail(Cur, "UnexpectedEndOfFile"))     \* Event::Eof
          /\ ReadEof
       \/ /\ More /\ Set(Cur) /\ ReadIgnored           \* any other event
       \/ /\ More /\ Set(Fail(Cur, "Xml")) /\ ReadError  \* read_event(buf)?

\* text_err (lines 123-146): one iteration of its loop.
text_err ==
    /\ Reading("text")
    /\ UNCHANGED tsv
    /\ \/ \E o \in ChildOffers(elems) :      \* Event::Start
            /\ More
            /\ Set(Fail(Cur, "UnexpectedInnerTag"))
            /\ ReadStart(o)
       \/ /\ More                                       \* Event::End
          /\ Set(TextEnd(TextCallback(Cur, Top(Cur), <<>>), Top(Cur)))
          /\ ReadEnd
       \/ \E t \in TextOffers(elems) :                  \* Event::Text, Event::CData
            /\ More
            /\ Set(TextBreak(TextCallback(Cur, Top(Cur), t), Top(Cur)))
            /\ ReadText(t)
       \/ /\ Set(Fail(Cur, "UnexpectedEndOfFile"))     \* Event::Eof
          /\ ReadEof
       \/ /\ More /\ Set(Cur) /\ ReadIgnored           \* any other event
       \/ /\ More /\ Set(Fail(Cur, "Xml")) /\ ReadError  \* read_event(buf)?

\* end_tag_immediately (lines 253-263): one iteration of its loop.
end_tag_immediately ==
    /\ Reading("endimm")
    /\ UNCHANGED tsv
    /\ \/ \E o \in ChildOffers(elems) :      \* Event::Start
            /\ More
            /\ Set(Fail(Cur, "UnexpectedInnerTag"))
            /\ ReadStart(o)
       \/ /\ More                                       \* Event::End
          /\ Set(AfterText(Pop(Cur), Top(Cur)))
          /\ ReadEnd
       \/ \E t \in TextOffers(elems) :                  \* Event::Text, Event::CData
            /\ More /\ Set(Cur) /\ ReadText(t)        \* fall under `_ => {}`
       \/ /\ Set(Fail(Cur, "UnexpectedEndOfFile"))     \* Event::Eof
          /\ ReadEof
       \/ /\ More /\ Set(Cur) /\ ReadIgnored           \* any other event
       \/ /\ More /\ Set(Fail(Cur, "Xml")) /\ ReadError  \* read_event(buf)?

\* end_tag (lines 265-283): one iteration of its loop.
MutEndTagStep ==
    /\ Reading("skip")
    /\ UNCHANGED tsv
    /\ \/ \E o \in ChildOffers(elems) :
            /\ More
            /\ Set([Cur EXCEPT !.stack[Len(stack)].depth = @ + 1])
            /\ ReadStart(o)
       \/ /\ More
          /\ Set(IF Top(Cur).depth = 0 THEN Pop(Cur)
                 ELSE [Cur EXCEPT !.stack[Len(stack)].depth = @ - 1])
          /\ ReadEnd
       \/ /\ Set(Finish(Cur))
          /\ ReadEof
       \/ /\ More /\ Set(Cur) /\ ReadIgnored
       \/ /\ More /\ Set(Fail(Cur, "Xml")) /\ ReadError
MutEndTagNoDepth ==
    /\ Reading("skip")
    /\ UNCHANGED tsv
    /\ \/ \E o \in ChildOffers(elems) :
            /\ More
            /\ Set([Cur EXCEPT !.stack[Len(stack)].depth = @ + 1])
            /\ ReadStart(o)
       \/ /\ More
          /\ Set(Pop(Cur))
          /\ ReadEnd
       \/ /\ Set(Fail(Cur, "UnexpectedEndOfFile"))
          /\ ReadEof
       \/ /\ More /\ Set(Cur) /\ ReadIgnored
       \/ /\ More /\ Set(Fail(Cur, "Xml")) /\ ReadError
end_tag_step ==
    /\ Reading("skip")
    /\ UNCHANGED tsv
    /\ \/ \E o \in ChildOffers(elems) :      \* Event::Start
            /\ More
            /\ Set([Cur EXCEPT !.stack[Len(stack)].depth = @ + 1])
            /\ ReadStart(o)
       \/ /\ More                                       \* Event::End
          /\ Set(IF Top(Cur).depth = 0 THEN Pop(Cur)
                 ELSE [Cur EXCEPT !.stack[Len(stack)].depth = @ - 1])
          /\ ReadEnd
       \/ /\ Set(Fail(Cur, "UnexpectedEndOfFile"))     \* Event::Eof
          /\ ReadEof
       \/ /\ More /\ Set(Cur) /\ ReadIgnored           \* any other event
       \/ /\ More /\ Set(Fail(Cur, "Xml")) /\ ReadError  \* read_event(buf)?

\* ------------------------------------------- the time-span combinators
\* read_time_span and read_time_span_optional applied to one element whose
\* text is ts_text (an immediate close when it is empty): what each hands to
\* its callback, or the error it returns.
TsAlphabet == {"1", "5", ".", ":", "-", "x"}
TsTexts == UNION {[1..n -> TsAlphabet] : n \in 0..MaxLen} \cup {T_12_5, T_Day}
TsUnread == [span |-> None, opt |-> None]
\* The pace analysis before any snapshot is taken.
NoSnapshot ==
    [phase |-> "NotRunning", method |-> "real_time", cur |-> TimeNew, idx |-> None,
     segs |-> <<>>, start |-> None, pause |-> None]
PaceUnread == [calc |-> None, pred |-> None]
NoEarlier == [snap |-> NoSnapshot, out |-> PaceUnread]
PaceIdle ==
    /\ earlier = NoEarlier /\ snap = NoSnapshot
    /\ clock = AtomicDateTime(0, FALSE) /\ pace_out = PaceUnread

VsUnread == [parsed |-> None, gates |-> None]

read_time_span ==
    /\ ts_out.span = None
    /\ ts_out' = [ts_out EXCEPT !.span = Some(time_span(ts_text))]
    /\ UNCHANGED <<prog, doc, ts_text, vs_attrs, vs_out, pacev>>

read_time_span_optional ==
    /\ ts_out.opt = None
    /\ ts_out' = [ts_out EXCEPT !.opt = Some(time_span_opt(ts_text))]
    /\ UNCHANGED <<prog, doc, ts_text, vs_attrs, vs_out, pacev>>

InitTimeSpan ==
    /\ stack = <<>>
    /\ version = Fresh.version /\ run = RunNew /\ segment = SegmentNew
    /\ time = TimeNew /\ att = AttemptNew /\ index = 0
    /\ var_name = <<>> /\ var_value = <<>> /\ str_buf = <<>>
    /\ result = Pending
    /\ elems = <<>> /\ nread = 0 /\ event = NoEvent
    /\ ts_text \in TsTexts /\ ts_out = TsUnread
    /\ vs_attrs = <<>> /\ vs_out = VsUnread
    /\ PaceIdle

NextTimeSpan == read_time_span \/ read_time_span_optional

SpecTimeSpan == InitTimeSpan /\ [][NextTimeSpan]_vars

\* --------------------------------------------------- the version gate
\* The version attribute of the root tag handed to the closure of parse (lines
\* 596-600), and the four comparisons the builders make with the version.
MaxPieces == 5
VsPieces == {<<>>, <<"x">>, <<"0">>, <<"1">>, <<"3">>, <<"4">>, <<"5">>, <<"6">>}
RECURSIVE Join(_)
Join(pieces) ==
    IF Len(pieces) = 1 THEN pieces[1]
    ELSE pieces[1] \o <<".">> \o Join(Tail(pieces))
VsTexts ==
    {Join(ps) : ps \in UNION {[1..n -> VsPieces] : n \in 1..MaxPieces}}
        \cup {<<"1", "0", ".", "0">>, <<"1", ".", "1", "0">>,
              <<"1", ".", "4", ".", "1", "0">>}

read_version ==
    /\ vs_out.parsed = None
    /\ vs_out' = [vs_out EXCEPT !.parsed = Some(ParseRoot(Fresh, "Run", vs_attrs))]
    /\ UNCHANGED <<prog, doc, ts_text, ts_out, vs_attrs, pacev>>

version_gate ==
    /\ vs_out.parsed # None /\ vs_out.gates = None
    /\ Unwrap(vs_out.parsed).result.status = "pending"
    /\ vs_out' = [vs_out EXCEPT !.gates =
            Some([ge130 |-> VersionGE(Unwrap(vs_out.parsed).version, V130),
                  lt130 |-> VersionLess(Unwrap(vs_out.parsed).version, V130),
                  ge141 |-> VersionGE(Unwrap(vs_out.parsed).version, V141),
                  ge150 |-> VersionGE(Unwrap(vs_out.parsed).version, V150),
                  ge160 |-> VersionGE(Unwrap(vs_out.parsed).version, V160)])]
    /\ UNCHANGED <<prog, doc, ts_text, ts_out, vs_attrs, pacev>>

InitVersion ==
    /\ stack = <<>>
    /\ version = Fresh.version /\ run = RunNew /\ segment = SegmentNew
    /\ time = TimeNew /\ att = AttemptNew /\ index = 0
    /\ var_name = <<>> /\ var_value = <<>> /\ str_buf = <<>>
    /\ result = Pending
    /\ elems = <<>> /\ nread = 0 /\ event = NoEvent
    /\ ts_text = <<>> /\ ts_out = TsUnread
    /\ vs_attrs \in {<<>>} \cup {<<<<"version", t>>>> : t \in VsTexts}
    /\ vs_out = VsUnread
    /\ PaceIdle

NextVersion == read_version \/ version_gate

SpecVersion == InitVersion /\ [][NextVersion]_vars

\* ------------------------------------------------------ current pace
\* analysis/current_pace.rs.  A snapshot is what the accessors of Snapshot
\* return: phase, current_timing_method, current_time, current_split_index,
\* the segments of the run (their time in the comparison and their split
\* time), get_start_time and get_pause_time.  Times are whole numbers of one
\* unit; a Time is [real_time, game_time] and is indexed by the timing method.
\* analysis::last_delta: the split time minus the comparison time of the
\* latest segment, from the current one backwards, that has both.
RECURSIVE last_delta(_, _, _)
last_delta(segs, i, method) ==
    IF i = 0 THEN None
    ELSE IF segs[i].comparison[method] # None /\ segs[i].split_time[method] # None
    THEN Some(Unwrap(segs[i].split_time[method]) - Unwrap(segs[i].comparison[method]))
    ELSE last_delta(segs, i - 1, method)

\* TimerPhase::updates_frequently
updates_frequently(phase, method) ==
    \/ phase = "Running"
    \/ phase = "Paused" /\ method = "game_time"

\* Option::unwrap_or_default (line 23) and unwrap_or_else(TimeSpan::zero)
\* (line 54).
UnwrapOrZero(o) == IF o = None THEN 0 ELSE Unwrap(o)

\* The catch! block of lines 27-35: the live delta, when both times exist.
LiveDelta(cur, cmp) ==
    IF cur = None \/ cmp = None THEN None ELSE Some(Unwrap(cur) - Unwrap(cmp))
\* Lines 31-34 and 37-44, given the last delta and the live delta.
MutPaceOf(final, delta, live, frequent) ==
    IF live # None
    THEN <<IF final = None THEN None ELSE Some(Unwrap(final) + Unwrap(live)),
           frequent /\ final # None>>
    ELSE <<IF final = None THEN None ELSE Some(Unwrap(final) + delta), FALSE>>
PaceOf(final, delta, live, frequent) ==
    IF live # None /\ Unwrap(live) > delta
    THEN <<IF final = None THEN None ELSE Some(Unwrap(final) + Unwrap(live)),
           frequent /\ final # None>>
    ELSE <<IF final = None THEN None ELSE Some(Unwrap(final) + delta), FALSE>>

MutCalculate(t) ==
    CASE t.phase \in {"Running", "Paused"} ->
            PaceOf(t.segs[Len(t.segs)].comparison[t.method],
                   UnwrapOrZero(last_delta(t.segs, Unwrap(t.idx) + 1, t.method)),
                   LiveDelta(t.cur[t.method],
                             t.segs[Unwrap(t.idx) + 1].comparison[t.method]),
                   updates_frequently(t.phase, t.method))
      [] OTHER -> <<t.segs[Len(t.segs)].split_time[t.method], FALSE>>
\* calculate (lines 10-49).
calculate(t) ==
    CASE t.phase \in {"Running", "Paused"} ->
            PaceOf(t.segs[Len(t.segs)].comparison[t.method],
                   UnwrapOrZero(last_delta(t.segs, Unwrap(t.idx) + 1, t.method)),
                   LiveDelta(t.cur[t.method],
                             t.segs[Unwrap(t.idx) + 1].comparison[t.method]),
                   updates_frequently(t.phase, t.method))
      [] t.phase = "Ended" -> <<t.segs[Len(t.segs)].split_time[t.method], FALSE>>
      [] t.phase = "NotRunning" ->
            <<t.segs[Len(t.segs)].comparison[t.method], FALSE>>

\* Lines 53-59, given the pace, the start time and the pause time.
MutFinishTime(cp, start, pause_time) ==
    <<Some(AtomicDateTime(start.time + cp, start.synced_with_atomic_clock)), TRUE>>
FinishTime(cp, start, pause_time) ==
    <<Some(AtomicDateTime(start.time + cp + pause_time,
                          start.synced_with_atomic_clock)), TRUE>>
MutPredict(c, t, now) ==
    IF c[1] # None
    THEN FinishTime(Unwrap(c[1]), IF t.start # None THEN Unwrap(t.start) ELSE now, 0)
    ELSE <<None, FALSE>>
Predict(c, t, now) ==
    IF c[1] # None
    THEN FinishTime(Unwrap(c[1]), IF t.start # None THEN Unwrap(t.start) ELSE now,
                    UnwrapOrZero(t.pause))
    ELSE <<None, FALSE>>
\* predict_wall_clock_time (lines 51-63); now is what AtomicDateTime::now()
\* returns at the call.
predict_wall_clock_time(t, now) == Predict(calculate(t), t, now)

\* The snapshots of the pace specification: every combination of accessor
\* values a timer can show (a current split exactly while an attempt is
\* active, at least one segment).
PaceValues == {None, Some(2), Some(5)}
PaceTimes ==
    {[real_time |-> r, game_time |-> g] : r \in PaceValues, g \in {None, Some(2)}}
        \ {[real_time |-> None, game_time |-> Some(2)],
           [real_time |-> Some(5), game_time |-> None]}
PaceSplits == {[real_time |-> r, game_time |-> r] : r \in {None, Some(1), Some(6)}}
PaceCurrents ==
    {TimeNew, [real_time |-> Some(1), game_time |-> Some(1)],
     [real_time |-> Some(6), game_time |-> None],
     [real_time |-> Some(6), game_time |-> Some(6)]}
PaceSegments ==
    UNION {[1..n -> [comparison : PaceTimes, split_time : PaceSplits]] : n \in {1, 2}}
PaceIndexes(phase, n) ==
    CASE phase \in {"Running", "Paused"} -> {Some(i) : i \in 0..(n - 1)}
      [] phase = "Ended" -> {Some(n)}
      [] OTHER -> {None}
PaceStarts ==
    {None, Some(AtomicDateTime(10, TRUE)), Some(AtomicDateTime(10, FALSE))}
PaceClocks == {AtomicDateTime(20, TRUE), AtomicDateTime(20, FALSE)}

calculate_step ==
    /\ pace_out.calc = None
    /\ pace_out' = [pace_out EXCEPT !.calc = Some(calculate(snap))]
    /\ UNCHANGED <<prog, doc, ts_text, ts_out, vs_attrs, vs_out>>
    /\ UNCHANGED <<earlier, snap, clock>>

predict_step ==
    /\ pace_out.calc # None /\ pace_out.pred = None
    /\ pace_out' = [pace_out EXCEPT !.pred = Some(predict_wall_clock_time(snap, clock))]
    /\ UNCHANGED <<prog, doc, ts_text, ts_out, vs_attrs, vs_out>>
    /\ UNCHANGED <<earlier, snap, clock>>

InitPace ==
    /\ stack = <<>>
    /\ version = Fresh.version /\ run = RunNew /\ segment = SegmentNew
    /\ time = TimeNew /\ att = AttemptNew /\ index = 0
    /\ var_name = <<>> /\ var_value = <<>> /\ str_buf = <<>>
    /\ result = Pending
    /\ elems = <<>> /\ nread = 0 /\ event = NoEvent
    /\ ts_text = <<>> /\ ts_out = TsUnread
    /\ vs_attrs = <<>> /\ vs_out = VsUnread
    /\ earlier = NoEarlier
    /\ \E phase \in {"NotRunning", "Running", "Paused", "Ended"} :
       \E segs \in PaceSegments :
          snap \in [phase : {phase}, method : {"real_time", "game_time"},
                    cur : PaceCurrents, idx : PaceIndexes(phase, Len(segs)),
                    segs : {segs}, start : PaceStarts, pause : {None, Some(3)}]
    /\ clock \in PaceClocks
    /\ pace_out = PaceUnread

NextPace == calculate_step \/ predict_step

SpecPace == InitPace /\ [][NextPace]_vars

\* ------------------------------------------------------ two snapshots
\* analysis/tests/current_pace.rs takes two snapshots of one attempt,
\* snap0 and snap1, and compares what predict_wall_clock_time makes of them.
\* What the timer does between the two is not in these sources: the later
\* snapshot is any that the accessors can return for the same run, timing
\* method and start time, with a current time, a split index and a pause
\* time not before those of the earlier one, and with the split times of
\* the segments already finished kept.
BothTimes(v) == [real_time |-> v, game_time |-> v]
PairComparisons ==
    {<<c1>> : c1 \in {None, Some(2)}}
        \cup {<<c1, c2>> : c1 \in {None, Some(2)}, c2 \in {None, Some(4)}}
PairSplits == {None, Some(1), Some(3)}

\* The earlier snapshot (snap0): a started attempt in phase Running, at its
\* first or a later segment, the finished segments with or without a split
\* time.
FirstSegments(cmps, idx) ==
    {[i \in 1..Len(cmps) |->
         [comparison |-> BothTimes(cmps[i]),
          split_time |-> BothTimes(IF i <= idx THEN v ELSE None)]] : v \in PairSplits}
FirstSnapshots ==
    UNION {[phase : {"Running"}, method : {"real_time", "game_time"},
            cur : {BothTimes(Some(0)), BothTimes(Some(3))},
            idx : {Some(q[2])},
            segs : FirstSegments(q[1], q[2]),
            start : {Some(AtomicDateTime(10, TRUE))},
            pause : {None, Some(1)}] :
           q \in {r \in PairComparisons \X {0, 1} : r[2] < Len(r[1])}}

\* The later snapshot (snap1): the split index has stayed or moved on by
\* one segment, which then has a split time or was skipped; time has passed
\* or not; the pause time has stayed or grown.
SplitsMade(s, i) ==
    IF i = Unwrap(s.idx) THEN {s.segs}
    ELSE {[s.segs EXCEPT ![i].split_time = BothTimes(v)] : v \in PairSplits}
Moves(s) ==
    UNION {{<<i, g>> : g \in SplitsMade(s, i)} :
           i \in Unwrap(s.idx)..Min(Unwrap(s.idx) + 1, Len(s.segs) - 1)}
PauseAfter(p) == {p} \cup {Some(UnwrapOrZero(p) + d) : d \in {1, 2}}
LaterSnapshots(s) ==
    {[s EXCEPT !.phase = ph,
               !.cur = BothTimes(Some(Unwrap(s.cur.real_time) + e)),
               !.idx = Some(q[1]), !.segs = q[2], !.pause = p] :
        ph \in {"Running", "Paused"}, e \in {0, 1, 3},
        q \in Moves(s), p \in PauseAfter(s.pause)}

\* snap1 is taken once snap0 has its prediction, which is kept.
later_snapshot ==
    /\ pace_out.pred # None /\ earlier = NoEarlier
    /\ snap' \in LaterSnapshots(snap)
    /\ earlier' = [snap |-> snap, out |-> pace_out]
    /\ pace_out' = PaceUnread
    /\ UNCHANGED <<prog, doc, ts_text, ts_out, vs_attrs, vs_out, clock>>

InitPair ==
    /\ stack = <<>>
    /\ version = Fresh.version /\ run = RunNew /\ segment = SegmentNew
    /\ time = TimeNew /\ att = AttemptNew /\ index = 0
    /\ var_name = <<>> /\ var_value = <<>> /\ str_buf = <<>>
    /\ result = Pending
    /\ elems = <<>> /\ nread = 0 /\ event = NoEvent
    /\ ts_text = <<>> /\ ts_out = TsUnread
    /\ vs_attrs = <<>> /\ vs_out = VsUnread
    /\ earlier = NoEarlier
    /\ snap \in FirstSnapshots
    /\ clock \in PaceClocks
    /\ pace_out = PaceUnread

NextPair == calculate_step \/ predict_step \/ later_snapshot

SpecPair == InitPair /\ [][NextPair]_vars

\* parse (lines 584-594): the reader, the buffers and the Run are made and
\* parse_base is entered.
Init ==
    /\ stack = <<Frame("base", "", "")>>
    /\ version = Fresh.version /\ run = RunNew /\ segment = SegmentNew
    /\ time = TimeNew /\ att = AttemptNew /\ index = 0
    /\ var_name = <<>> /\ var_value = <<>> /\ str_buf = <<>>
    /\ result = Pending
    /\ elems = <<>> /\ nread = 0 /\ event = NoEvent
    /\ ts_text = <<>> /\ ts_out = TsUnread
    /\ vs_attrs = <<>> /\ vs_out = VsUnread
    /\ PaceIdle

Next ==
    \/ parse_base
    \/ parse_children_step
    \/ text_err
    \/ end_tag_immediately
    \/ end_tag_step

Spec == Init /\ [][Next]_vars

\* ================================================================ claims
P_Segment == <<"Run", "Segments", "Segment">>
AtLeast(v) == VersionGE(version, v)
Failed(err) == result.status = "err" /\ result.error = err /\ result.run = None
Span == Unwrap(ts_out.span)
Opt == Unwrap(ts_out.opt)

Pend == result.status = "pending"
NoAttr(key) == FindAttr(event.attrs, key) = None
AttrText(key) == Unwrap(FindAttr(event.attrs, key))
P_SplitTime == P_Segment \o <<"SplitTimes", "SplitTime">>
P_SegmentHistoryEntry == P_Segment \o <<"SegmentHistory", "Time">>
P_RunHistoryEntry == <<"Run", "RunHistory", "Time">>
P_AttemptEntry == <<"Run", "AttemptHistory", "Attempt">>
P_Platform == <<"Run", "Metadata", "Platform">>
\* The dates among the attribute texts and the moments they stand for:
\* 01/02/2017 03:04:05 and 1/3/2017 4:5:6.
DateRead(d) ==
    CASE d = T_Date -> [year |-> 2017, month |-> 1, day |-> 2,
                           hour |-> 3, minute |-> 4, second |-> 5]
      [] d = T_DateEnd -> [year |-> 2017, month |-> 1, day |-> 3,
                              hour |-> 4, minute |-> 5, second |-> 6]
AttrWellFormed(kv) ==
    CASE kv[1] = "id" -> kv[2] \in {T_1, T_2}
      [] kv[1] \in {"started", "ended"} -> kv[2] \in {T_Date, T_DateEnd}
      [] kv[1] \in {"isStartedSynced", "isEndedSynced"} -> kv[2] \in {T_True, T_False}
      [] OTHER -> TRUE

\* C1 -- fail-fast.  No step is taken after parse has returned; an error
\* raised by a step (end of input, a tokenizer error, a nested element where
\* text is read, a text or attribute that does not convert, a missing required
\* attribute) is what parse returns, with no Run; of two bad attributes the
\* first in document order decides; a Run is returned only on success.
C1_FailFast ==
    [][/\ Pend
       /\ (result'.status # "ok" => result'.run = None)
       /\ (result'.status = "ok" => result'.run # None)
       /\ (event'.kind = "Eof" => Failed("UnexpectedEndOfFile")')
       /\ (event'.kind = "Error" => Failed("Xml")')
       /\ (event'.kind = "Start" /\ (Reading("text") \/ Reading("endimm"))
                => Failed("UnexpectedInnerTag")')
       /\ (event'.kind = "Text" /\ Reading("text") /\ elems = <<"Run", "AttemptCount">>
                /\ ~ParseU32(event'.text).ok => Failed("Int")')
       /\ (event'.kind = "Text" /\ Reading("text") /\ elems = <<"Run", "Offset">>
                /\ ~time_span(event'.text).ok =>
                    result' = [status |-> "err", error |-> time_span(event'.text).e,
                               run |-> None])
       /\ (event'.kind = "Start" /\ elems' = P_AttemptEntry /\ AtLeast(V150)
                /\ event'.attrs = <<<<"id", T_x>>, <<"isStartedSynced", T_Maybe>>>>
                => Failed("Int")')
       /\ (event'.kind = "Start" /\ elems' = P_SegmentHistoryEntry
                /\ FindAttr(event'.attrs, "id") = None
                => Failed("AttributeNotFound")')
      ]_vars
C1_Witness ==
    /\ Failed("Time") /\ event.kind = "Text" /\ nread >= 5
    /\ elems = <<"Run", "Offset">>

\* C2 -- the source of the attempts is decided by the version alone: an
\* Attempt is added only while an AttemptHistory child is read when the
\* version is >= 1.5.0.0, and only while a RunHistory child is read when it is
\* lower; the Run returned holds exactly the attempts so gathered.
C2_AttemptSource ==
    [][/\ (result'.status = "pending" /\ run'.attempts # run.attempts) =>
            /\ Len(run'.attempts) = Len(run.attempts) + 1
            /\ SubSeq(run'.attempts, 1, Len(run.attempts)) = run.attempts
            /\ Len(elems) = 3 /\ elems[1] = "Run"
            /\ elems[2] = (IF AtLeast(V150) THEN "AttemptHistory" ELSE "RunHistory")
       /\ (result'.status = "ok" => Unwrap(result'.run).attempts = run.attempts)
      ]_vars
C2_Witness ==
    /\ Pend /\ AtLeast(V150) /\ elems = P_RunHistoryEntry
    /\ Len(run.attempts) = 1 /\ stack[Len(stack)].k = "skip"

\* C3 -- below version 1.3.0.0 a PersonalBestSplitTime sets the segment's
\* legacy personal-best split time, and no comparison key is written and no
\* custom comparison registered; from 1.3.0.0 on the legacy field stays unset.
SegmentsOf(r) == {r.segments[i] : i \in 1..Len(r.segments)}
C3_Holds(v, r, segs) ==
    /\ VersionLess(v, V130) =>
            /\ r.custom_comparisons = {}
            /\ \A g \in segs : g.comparisons = {}
    /\ VersionGE(v, V130) =>
            \A g \in segs : g.personal_best_split_time = None
C3_State ==
    /\ Pend => C3_Holds(version, run, SegmentsOf(run) \cup {segment})
    /\ result.status = "ok" =>
            C3_Holds(version, Unwrap(result.run), SegmentsOf(Unwrap(result.run)))
    /\ (Pend /\ ~AtLeast(V130) /\ event.kind = "End"
            /\ event.name = "PersonalBestSplitTime" /\ elems = P_Segment) =>
            /\ segment.personal_best_split_time # None
            /\ Unwrap(segment.personal_best_split_time).game_time = None
C3_LegacyPersonalBest ==
    /\ []C3_State
    /\ [][(Pend /\ ~AtLeast(V130) /\ Reading("text") /\ event'.kind = "Text"
             /\ elems = P_Segment \o <<"PersonalBestSplitTime">>
             /\ result'.status = "pending") =>
             segment'.personal_best_split_time =
                 Some([real_time |-> time_span_opt(event'.text).v, game_time |-> None])
         ]_vars
C3_Witness ==
    /\ Pend /\ ~AtLeast(V130) /\ elems = P_SplitTime
    /\ segment.personal_best_split_time # None
    /\ Unwrap(segment.personal_best_split_time).real_time # None

\* C4 -- a Platform element without a usesEmulator attribute (version >=
\* 1.6.0.0) is accepted: the parse does not fail on it.
C4_PlatformWithoutEmulator ==
    (event.kind = "Start" /\ elems = P_Platform /\ AtLeast(V160)
        /\ NoAttr("usesEmulator")) => Pend

\* C5 (as claimed) -- every SplitTime entry and every history entry without an
\* id attribute makes the parse fail with AttributeNotFound, in any version.
C5_MissingIdAnyEntry ==
    (event.kind = "Start" /\ NoAttr("id")
        /\ elems \in {P_SplitTime, P_SegmentHistoryEntry, P_RunHistoryEntry,
                      P_AttemptEntry}) => Failed("AttributeNotFound")

\* C5 (amended) -- a missing id fails with AttributeNotFound on a
\* SegmentHistory entry in any version, on a RunHistory entry below 1.5.0.0
\* and on an AttemptHistory entry from 1.5.0.0 on whose other attributes
\* convert; a SplitTime (from 1.3.0.0 on) requires name, not id; where the
\* version skips the subtree nothing is required.
C5_MissingId ==
    event.kind = "Start" =>
        /\ (elems = P_SegmentHistoryEntry /\ NoAttr("id")) => Failed("AttributeNotFound")
        /\ (elems = P_RunHistoryEntry /\ NoAttr("id")) =>
                IF AtLeast(V150) THEN Pend ELSE Failed("AttributeNotFound")
        /\ (elems = P_AttemptEntry /\ NoAttr("id")
                /\ \A i \in 1..Len(event.attrs) : AttrWellFormed(event.attrs[i])) =>
                IF AtLeast(V150) THEN Failed("AttributeNotFound") ELSE Pend
        /\ (elems = P_SplitTime /\ NoAttr("name")) =>
                IF AtLeast(V130) THEN Failed("AttributeNotFound") ELSE Pend
        /\ (elems = P_SplitTime /\ ~NoAttr("name")) => Pend
C5_Witness ==
    /\ event.kind = "Start" /\ elems = P_SegmentHistoryEntry /\ NoAttr("id")
    /\ Failed("AttributeNotFound")

\* C6 -- wherever a boolean is read, a text other than "True" or "False"
\* fails the parse with the boolean error and no Run: usesEmulator on Platform
\* (version >= 1.6.0.0) and isStartedSynced / isEndedSynced on an attempt
\* (version >= 1.5.0.0, once the attributes before it have converted).
BadBoolRead(attrs) ==
    \E i \in 1..Len(attrs) :
        /\ attrs[i][1] \in {"isStartedSynced", "isEndedSynced"}
        /\ attrs[i][2] \notin {T_True, T_False}
        /\ \A j \in 1..(i - 1) : AttrWellFormed(attrs[j])
C6_InvalidBoolean ==
    event.kind = "Start" =>
        /\ (elems = P_Platform /\ AtLeast(V160) /\ ~NoAttr("usesEmulator")) =>
                IF AttrText("usesEmulator") \in {T_True, T_False}
                THEN Pend /\ run.metadata.uses_emulator = (AttrText("usesEmulator") = T_True)
                ELSE Failed("Bool")
        /\ (elems = P_AttemptEntry /\ AtLeast(V150) /\ BadBoolRead(event.attrs)) =>
                Failed("Bool")
C6_Witness ==
    /\ event.kind = "Start" /\ elems = P_Platform /\ AtLeast(V160)
    /\ ~NoAttr("usesEmulator") /\ AttrText("usesEmulator") = T_Maybe
    /\ Failed("Bool")

\* C7 -- read_image never aborts because of the payload.
C7_ImageNeverAborts == result.status # "panic"

\* C8 -- the value handed to the icon setter is empty when the text is shorter
\* than 216 characters or its suffix from offset 212 is not base64, and
\* otherwise the decoded bytes without the first 2 and the last 1.
ExpectedIcon(t) ==
    IF Len(t) < 216 THEN <<>>
    ELSE LET d == Base64Decode(SubSeq(t, 213, Len(t)))
         IN IF d.ok THEN SubSeq(d.v, 3, Len(d.v) - 1) ELSE <<>>
C8_ImageValue ==
    (Pend /\ event.kind = "End") =>
        /\ (event.name = "GameIcon" /\ elems = <<"Run">>) =>
                run.game_icon = ExpectedIcon(str_buf)
        /\ (event.name = "Icon" /\ elems = P_Segment) =>
                segment.icon = ExpectedIcon(str_buf)

\* C9 -- time-span encoding dispatch.  A non-empty text is read as day-qualified
\* exactly when it holds a '.' and a ':' with the first '.' before the first
\* ':'; then the result is (the integer before that '.') days plus the time of
\* day after it.  Every other text is read whole as seconds / h:m:s.  "12.5"
\* is 12.5 seconds, "1.02:30:00" is 1 day + 02:30:00.
DayShape(t) ==
    \E i \in 1..Len(t) :
        /\ t[i] = "."
        /\ \A j \in 1..(i - 1) : t[j] \notin {".", ":"}
        /\ \E k \in (i + 1)..Len(t) : t[k] = ":"
DayDot(t) == CHOOSE i \in 1..Len(t) : t[i] = "." /\ \A j \in 1..(i - 1) : t[j] # "."
ExpectedSpan(t) ==
    IF DayShape(t)
    THEN LET d == ParseI32(SubSeq(t, 1, DayDot(t) - 1))
             r == TimeSpanFromStr(SubSeq(t, DayDot(t) + 1, Len(t)))
         IN IF d.ok /\ r.ok
            THEN Ok(TsAdd(TsSeconds(86400 * d.v), r.v))
            ELSE Err("any")
    ELSE TimeSpanFromStr(t)
SameOutcome(r, x) == r.ok = x.ok /\ (r.ok => r.v = x.v)
C9_Dispatch ==
    /\ (ts_out.span # None /\ ts_text # <<>>) =>
            /\ SameOutcome(Span, ExpectedSpan(ts_text))
            /\ (ts_text = T_12_5 => Span.ok /\ Span.v = <<12, 5 * (Unit \div 10)>>)
            /\ (ts_text = T_Day => Span.ok /\ Span.v = <<86400 + 2 * 3600 + 30 * 60, 0>>)
    /\ (ts_out.opt # None /\ ts_text # <<>>) =>
            /\ Opt.ok = ExpectedSpan(ts_text).ok
            /\ (Opt.ok => Opt.v = Some(ExpectedSpan(ts_text).v))
C9_Witness ==
    /\ ts_text = T_Day /\ ts_out.span # None /\ ts_out.opt # None
    /\ Span.ok /\ Span.v = <<95400, 0>>

\* C10 -- read_time_span_optional on empty text delivers "absent" (no zero, no
\* error); on non-empty text it delivers present(v) exactly when read_time_span
\* delivers v, and fails exactly when read_time_span fails.
C10_OptionalAbsent ==
    ts_out.opt # None =>
        /\ (ts_text = <<>> => Opt.ok /\ Opt.v = None)
        /\ (ts_text # <<>> /\ ts_out.span # None) =>
                /\ Opt.ok = Span.ok
                /\ (Opt.ok => Opt.v = Some(Span.v))
                /\ (~Opt.ok => Opt.e = Span.e)
C10_Witness ==
    /\ ts_text = <<>> /\ ts_out.opt # None /\ ts_out.span # None
    /\ Opt.ok /\ Opt.v = None /\ ~Span.ok

\* C11 -- an Offset element closed right after its open (empty text) is
\* accepted: the parse goes on and the Run's offset is the zero duration.
C11_EmptyOffset ==
    [][(/\ Pend /\ event.kind = "Start" /\ elems = <<"Run", "Offset">>
        /\ event'.kind = "End")
            => (result'.status = "pending" /\ run'.offset = TsZero)]_vars

\* C12 -- within one Segment every SegmentHistory entry writes its Time under
\* its id, replacing what an earlier entry wrote under the same id and leaving
\* the other ids alone; an id is never held twice.
P_SegmentHistory == P_Segment \o <<"SegmentHistory">>
UniqueKeys(m) == \A p \in m : \A q \in m : p[1] = q[1] => p = q
HistoryTimeRead ==
    IF AtLeast(V141) THEN time
    ELSE [real_time |-> time_span_opt(IF event'.kind = "Text" THEN event'.text
                                      ELSE <<>>).v,
          game_time |-> None]
C12_LastWriteWins ==
    [][/\ UniqueKeys(segment'.segment_history)
       /\ \A i \in 1..Len(run'.segments) : UniqueKeys(run'.segments[i].segment_history)
       /\ (/\ result'.status = "pending"
           /\ segment'.segment_history # segment.segment_history
           /\ segment'.segment_history # {}) =>
                /\ elems = P_SegmentHistoryEntry
                /\ segment'.segment_history =
                        {p \in segment.segment_history : p[1] # index}
                            \cup {<<index, HistoryTimeRead>>}
      ]_vars
C12_Witness ==
    /\ Pend /\ event.kind = "Start" /\ elems = P_SegmentHistoryEntry
    /\ index = 1 /\ \E p \in segment.segment_history : p[1] = index

\* C13 -- the version gate: no version attribute gives (1,0,0,0); a text of
\* one to four numeric components gives those components followed by zeros;
\* each threshold comparison is the lexicographic comparison of the 4-tuples
\* (here by their weights in base 11, every component being below 11).
VsGiven == vs_attrs # <<>>
VsPiecesOf == Split(vs_attrs[1][2], ".")
IsNumeric(p) == Len(p) > 0 /\ AllDigits(p)
Weight(v) == ((v[1] * 11 + v[2]) * 11 + v[3]) * 11 + v[4]
Parsed == Unwrap(vs_out.parsed)
Gates == Unwrap(vs_out.gates)
C13_VersionGate ==
    vs_out.parsed # None =>
        /\ ~VsGiven =>
                Parsed.result.status = "pending" /\ Parsed.version = <<1, 0, 0, 0>>
        /\ (/\ VsGiven /\ Len(VsPiecesOf) <= 4
            /\ \A i \in 1..Len(VsPiecesOf) : IsNumeric(VsPiecesOf[i])) =>
                /\ Parsed.result.status = "pending"
                /\ Parsed.version =
                    [i \in 1..4 |-> IF i <= Len(VsPiecesOf)
                                    THEN DigitsValue(VsPiecesOf[i]) ELSE 0]
        /\ vs_out.gates # None =>
                /\ Gates.ge130 = (Weight(Parsed.version) >= Weight(<<1, 3, 0, 0>>))
                /\ Gates.lt130 = (Weight(Parsed.version) < Weight(<<1, 3, 0, 0>>))
                /\ Gates.ge141 = (Weight(Parsed.version) >= Weight(<<1, 4, 1, 0>>))
                /\ Gates.ge150 = (Weight(Parsed.version) >= Weight(<<1, 5, 0, 0>>))
                /\ Gates.ge160 = (Weight(Parsed.version) >= Weight(<<1, 6, 0, 0>>))
C13_Witness ==
    /\ VsGiven /\ vs_attrs[1][2] = <<"1", ".", "4", ".", "1">>
    /\ vs_out.gates # None /\ Parsed.version = <<1, 4, 1, 0>>
    /\ Gates.ge130 /\ Gates.ge141 /\ ~Gates.ge150 /\ ~Gates.ge160

\* C14 (as claimed) -- every component present in the version attribute, at
\* any position, must be an unsigned integer, or the parse fails with the
\* numeric-format error and no Run.
C14_EveryComponentNumeric ==
    (/\ vs_out.parsed # None /\ VsGiven
     /\ \E i \in 1..Len(VsPiecesOf) : ~IsNumeric(VsPiecesOf[i])) =>
        /\ Parsed.result.status = "err" /\ Parsed.result.error = "Int"
        /\ Parsed.result.run = None

\* C15 -- the custom comparison names registered on the Run are exactly the
\* keys written to the comparison maps of its segments: every SplitTime entry
\* (version >= 1.3.0.0) registers its name and writes it as a key of the
\* segment being read, and nothing else registers or writes a name.
KeysOf(r) == UNION {MapKeys(r.segments[i].comparisons) : i \in 1..Len(r.segments)}
InSplitTime == Len(elems) >= 5 /\ SubSeq(elems, 1, 5) = P_SplitTime /\ AtLeast(V130)
C15_ComparisonKeys ==
    /\ result.status = "ok" =>
            Unwrap(result.run).custom_comparisons = KeysOf(Unwrap(result.run))
    /\ Pend =>
            run.custom_comparisons =
                KeysOf(run) \cup MapKeys(segment.comparisons)
                    \cup (IF InSplitTime THEN {str_buf} ELSE {})
    /\ (Pend /\ AtLeast(V130) /\ event.kind = "End" /\ event.name = "SplitTime"
            /\ elems = P_Segment \o <<"SplitTimes">>) =>
            /\ str_buf \in run.custom_comparisons
            /\ str_buf \in MapKeys(segment.comparisons)
C15_Witness ==
    /\ Pend /\ elems = <<"Run", "Segments">> /\ Len(run.segments) = 1
    /\ run.custom_comparisons = {T_A}
    /\ MapKeys(run.segments[1].comparisons) = {T_A}

\* C16 -- below version 1.6.0.0 the Metadata subtree is skipped: the metadata
\* stays as constructed and nothing inside the subtree fails the parse for a
\* missing attribute or a malformed boolean; from 1.6.0.0 on a Run child
\* without id, a Platform with a malformed usesEmulator and a Variables child
\* without name fail, and a well-formed Platform sets the emulator flag.
InMetadata == Len(elems) >= 2 /\ SubSeq(elems, 1, 2) = <<"Run", "Metadata">>
C16_MetadataGate ==
    /\ ~AtLeast(V160) =>
            /\ Pend => run.metadata = MetadataNew
            /\ result.status = "ok" => Unwrap(result.run).metadata = MetadataNew
            /\ InMetadata =>
                    ~Failed("AttributeNotFound") /\ ~Failed("Bool")
            /\ (InMetadata /\ event.kind = "Start") => Pend
    /\ (AtLeast(V160) /\ event.kind = "Start") =>
            /\ (elems = <<"Run", "Metadata", "Run">> /\ NoAttr("id")) =>
                    Failed("AttributeNotFound")
            /\ (elems = P_Platform /\ ~NoAttr("usesEmulator")
                    /\ AttrText("usesEmulator") = T_Maybe) => Failed("Bool")
            /\ (elems = P_Platform /\ ~NoAttr("usesEmulator")
                    /\ AttrText("usesEmulator") = T_True) =>
                    Pend /\ run.metadata.uses_emulator
            /\ (elems = <<"Run", "Metadata", "Variables", "Variable">>
                    /\ NoAttr("name")) => Failed("AttributeNotFound")
C16_Witness ==
    /\ ~AtLeast(V160) /\ Pend /\ event.kind = "Start" /\ elems = P_Platform
    /\ ~NoAttr("usesEmulator") /\ AttrText("usesEmulator") = T_Maybe

\* C17 -- from version 1.5.0.0 on, every child of AttemptHistory appends
\* exactly one Attempt when it closes: its index is the id attribute; its start
\* stamp is present iff `started` is, tagged with isStartedSynced (false when
\* absent) whatever the order of the attributes, and likewise for `ended`;
\* RealTime, GameTime and PauseTime fill the real time, the game time and the
\* pause time, each absent when its element is missing or empty.
ExpStamp(attrs, key, sync) ==
    IF FindAttr(attrs, key) = None THEN None
    ELSE Some([time |-> DateRead(Unwrap(FindAttr(attrs, key))),
               synced_with_atomic_clock |-> (FindAttr(attrs, sync) = Some(T_True))])
StampOf(t, synced) ==
    IF t = None THEN None
    ELSE Some([time |-> Unwrap(t), synced_with_atomic_clock |-> synced])
ExpAttempt(a, t) ==
    [index |-> Unwrap(a.index), time |-> t,
     started |-> StampOf(a.started, a.started_synced),
     ended |-> StampOf(a.ended, a.ended_synced),
     pause_time |-> a.pause_time]
TextRead == IF event'.kind = "Text" THEN event'.text ELSE <<>>
FirstRead == event.kind = "Start" /\ event'.kind \in {"Text", "End"}
C17_AttemptFields ==
    [][(AtLeast(V150) /\ result'.status = "pending") =>
        /\ (event'.kind = "Start" /\ elems' = P_AttemptEntry) =>
                /\ run'.attempts = run.attempts
                /\ ExpAttempt(att', time') =
                    [index |-> ParseI32(Unwrap(FindAttr(event'.attrs, "id"))).v,
                     time |-> [real_time |-> None, game_time |-> None],
                     started |-> ExpStamp(event'.attrs, "started", "isStartedSynced"),
                     ended |-> ExpStamp(event'.attrs, "ended", "isEndedSynced"),
                     pause_time |-> None]
        /\ (event'.kind = "End" /\ elems = P_AttemptEntry) =>
                run'.attempts = Append(run.attempts, ExpAttempt(att, time))
        /\ run'.attempts # run.attempts =>
                event'.kind = "End" /\ elems = P_AttemptEntry
        /\ (Len(elems') >= 3 /\ SubSeq(elems', 1, 3) = P_AttemptEntry
                /\ Len(elems) >= 3) =>
                /\ att'.index = att.index
                /\ att'.started = att.started /\ att'.started_synced = att.started_synced
                /\ att'.ended = att.ended /\ att'.ended_synced = att.ended_synced
        /\ (FirstRead /\ elems = P_AttemptEntry \o <<"RealTime">>) =>
                /\ time'.real_time = time_span_opt(TextRead).v
                /\ time'.game_time = time.game_time /\ att'.pause_time = att.pause_time
        /\ (FirstRead /\ elems = P_AttemptEntry \o <<"GameTime">>) =>
                /\ time'.game_time = time_span_opt(TextRead).v
                /\ time'.real_time = time.real_time /\ att'.pause_time = att.pause_time
        /\ (FirstRead /\ elems = P_AttemptEntry \o <<"PauseTime">>) =>
                /\ att'.pause_time = time_span_opt(TextRead).v
                /\ time' = time
      ]_vars
\* An attempt read from isEndedSynced="True" ended id="2" started, in that
\* order, with a RealTime: the start stamp is not synced, the end stamp is.
C17_Witness ==
    /\ Pend /\ AtLeast(V150) /\ elems = <<"Run", "AttemptHistory">>
    /\ Len(run.attempts) = 1 /\ run.attempts[1].index = 2
    /\ run.attempts[1].started = Some([time |-> DateRead(T_Date),
                                       synced_with_atomic_clock |-> FALSE])
    /\ run.attempts[1].ended = Some([time |-> DateRead(T_DateEnd),
                                     synced_with_atomic_clock |-> TRUE])
    /\ run.attempts[1].time.real_time # None
    /\ run.attempts[1].pause_time = None

\* C18 (as claimed) -- end of input while a combinator waits for an event
\* fails the parse with UnexpectedEndOfFile, and no Run is ever returned while
\* an opened element is still unclosed.
C18_NoRunWhileOpen ==
    /\ event.kind = "Eof" => Failed("UnexpectedEndOfFile")
    /\ result.status = "ok" => elems = <<>>

\* C18 (amended) -- end of input read by parse_base, parse_children, text_err,
\* end_tag_immediately or end_tag, at any depth, fails the parse with
\* UnexpectedEndOfFile and no Run; a Run is returned with an element still
\* open only when the root is not named Run, where parse returns at the
\* root's open and reads nothing more.
C18_EndOfInput ==
    /\ event.kind = "Eof" => Failed("UnexpectedEndOfFile")
    /\ result.status = "ok" =>
            \/ elems = <<>> /\ event.kind = "End" /\ event.name = "Run"
            \/ Len(elems) = 1 /\ elems[1] # "Run" /\ event.kind = "Start"
    /\ (Len(elems) >= 1 /\ elems[1] = "Run") => result.status # "ok"
C18_Witness ==
    /\ event.kind = "Eof" /\ Failed("UnexpectedEndOfFile")
    /\ Len(elems) >= 3 /\ elems[1] = "Run" /\ elems[2] = "AutoSplitterSettings"

\* ---- C19
\* The two results of the pace analysis for the snapshot, once computed.
Calc == Unwrap(pace_out.calc)
Pred == Unwrap(pace_out.pred)
Predicted == pace_out.calc # None /\ pace_out.pred # None
\* The attempt's start time; a timer that has none is given the wall clock
\* read at the call.
StartOf == IF snap.start # None THEN Unwrap(snap.start) ELSE clock
PauseOf == IF snap.pause # None THEN Unwrap(snap.pause) ELSE 0

\* C19: whenever calculate yields a pace p for a snapshot,
\* predict_wall_clock_time yields the attempt's start time plus p plus the
\* pause time accumulated so far (zero when there is none), with the start
\* time's synced flag, and its second component is true; whenever calculate
\* yields no pace it yields (none, false).
C19_PredictedFinish ==
    Predicted =>
        /\ Calc[1] # None =>
              /\ Pred[2] = TRUE
              /\ Pred[1] # None
              /\ Unwrap(Pred[1]).time = StartOf.time + Unwrap(Calc[1]) + PauseOf
              /\ Unwrap(Pred[1]).synced_with_atomic_clock
                    = StartOf.synced_with_atomic_clock
        /\ Calc[1] = None => Pred = <<None, FALSE>>

\* A paused attempt with a start time and three units of pause time whose
\* pace is 5 + 4 (the live delta 6 - 2 exceeds the last delta) is predicted
\* to finish at 10 + 9 + 3.
C19_Witness ==
    /\ Predicted
    /\ snap.phase = "Paused" /\ snap.start # None /\ snap.pause = Some(3)
    /\ Calc[1] = Some(9)
    /\ Pred = <<Some(AtomicDateTime(22, TRUE)), TRUE>>

\* ---- C20
\* The last delta of a snapshot (zero when there is none), the final time
\* of the comparison, and whether the current time has not exceeded the
\* current split's comparison time by more than the last delta.
LastDeltaOf(s) == UnwrapOrZero(last_delta(s.segs, Unwrap(s.idx) + 1, s.method))
FinalOf(s) == s.segs[Len(s.segs)].comparison[s.method]
NotBehind(live, delta) == live = None \/ Unwrap(live) <= delta
Within(s) ==
    /\ s.phase = "Running"
    /\ NotBehind(LiveDelta(s.cur[s.method],
                           s.segs[Unwrap(s.idx) + 1].comparison[s.method]),
                 LastDeltaOf(s))
\* Both snapshots have been taken and predicted from.
BothPredicted == earlier # NoEarlier /\ pace_out.pred # None
\* The timer has stayed in phase Running from the earlier snapshot to the
\* later one: both show Running and no pause time has been added.
StayedRunning ==
    /\ BothPredicted
    /\ Within(earlier.snap) /\ Within(snap)
    /\ snap.pause = earlier.snap.pause
\* No split was made or skipped between the two snapshots.
SameSplits == snap.idx = earlier.snap.idx /\ snap.segs = earlier.snap.segs
\* The distance of a prediction from the start time.
Distance(out, s) == Unwrap(Unwrap(out.pred)[1]).time - Unwrap(s.start).time
    /\ snap.pause = Some(1)
    /\ Pred = <<Some(AtomicDateTime(14, TRUE)), TRUE>>

\* ---- C21
\* The predicted finish time of a pair of results, when there is one.
HasPrediction(out) == out.pred # None /\ Unwrap(out.pred)[1] # None
PredictedTime(out) == Unwrap(Unwrap(out.pred)[1]).time
\* How long the timer has been paused between the two snapshots: the pause
\* time added since the earlier one.
PausedFor == UnwrapOrZero(snap.pause) - UnwrapOrZero(earlier.snap.pause)
\* The earlier snapshot was taken while running, the later one while
\* paused, both with a prediction.
SnapshotWhilePaused ==
    /\ earlier # NoEarlier
    /\ PausedFor = 2
    /\ PredictedTime(pace_out) = 16

\* ---- C22
\* The last segment's split time for the current timing method.
FinalSplitOf(s) == s.segs[Len(s.segs)].split_time[s.method]

\* C22 as stated: when the phase is neither Running nor Paused, calculate
\* returns the final time of the comparison with the live flag false.
C22_NoActiveAttempt ==
    (pace_out.calc # None /\ snap.phase \notin {"Running", "Paused"}) =>
        Calc = <<FinalOf(snap), FALSE>>

\* C22, amended: that is what it returns in phase NotRunning; in phase
\* Ended it returns the last segment's split time, with the flag false.
C22_NotRunningOrEnded ==
    pace_out.calc # None =>
        /\ snap.phase = "NotRunning" => Calc = <<FinalOf(snap), FALSE>>
        /\ snap.phase = "Ended" => Calc = <<FinalSplitOf(snap), FALSE>>

\* A timer that is not running, whose comparison ends at 5 while the last
\* segment still holds a split time of 1: the result is 5, not live.
C22_Witness ==
    /\ pace_out.calc # None /\ snap.phase = "NotRunning"
    /\ FinalOf(snap) = Some(5) /\ FinalSplitOf(snap) = Some(1)
    /\ Calc = <<Some(5), FALSE>>

\* ---- C23
\* The data parse has built so far: everything but the call stack and the
\* result.
Built == <<version, run, segment, time, att, index, var_name, var_value, str_buf>>
\* The element end_tag was called for: the one still open below the depth
\* end_tag has counted.
Skipping == Reading("skip")
SkippedAt == Len(elems) - stack[Len(stack)].depth

\* C23: end_tag, called on the open of an element the builder does not
\* read, fails on nothing but the end of the input or a tokenizer error,
\* changes nothing of the Run while it reads, counts every nested open and
\* close whatever its name, and returns on the close of the element it was
\* called for and on no other event.
C23_SkipElement ==
    [][Skipping =>
          /\ SkippedAt = Len(stack) - 1
          /\ result'.status = "err" => event'.kind \in {"Eof", "Error"}
          /\ result'.status = "pending" =>
                /\ Built' = Built
                /\ \/ /\ stack' = stack
                      /\ event'.kind = "Other"
                   \/ /\ Len(stack') = Len(stack) /\ stack'[Len(stack)].k = "skip"
                      /\ event'.kind = "Start"
                      /\ stack'[Len(stack)].depth = stack[Len(stack)].depth + 1
                   \/ /\ Len(stack') = Len(stack) /\ stack'[Len(stack)].k = "skip"
                      /\ event'.kind = "End"
                      /\ stack[Len(stack)].depth > 0
                      /\ stack'[Len(stack)].depth = stack[Len(stack)].depth - 1
                   \/ /\ stack' = SubSeq(stack, 1, Len(stack) - 1)
                      /\ event'.kind = "End"
                      /\ stack[Len(stack)].depth = 0
                      /\ Len(elems') = SkippedAt - 1
          /\ result'.status \in {"err", "pending"}
      ]_vars

\* end_tag two levels into an unknown child of a Segment, below an element
\* of the same name and one named Segment, with the segment read so far
\* untouched.
C23_Witness ==
    /\ Skipping
    /\ elems = <<"Run", "Segments", "Segment", "Unknown", "Unknown", "Segment">>
    /\ stack[Len(stack)].depth = 2
    /\ segment.name = T_A

\* ---- C24
\* C24 as stated, in its last part: an element body holding more than one
\* text/CDATA event is not accepted as a single text, so that a further
\* text read by end_tag_immediately, after text_err has handed the first to
\* its callback, makes the parse fail.
C24_SingleText ==
    [][(Reading("endimm") /\ event'.kind = "Text") => result'.status = "err"]_vars

\* ---- C25
\* The four sites of the 1.4.1.0 gate: the path of the element, the closure
\* of the parse_children loop that reads its open, and the receiver of its
\* Time.
P_BestSegmentTime == P_Segment \o <<"BestSegmentTime">>
GatedSites ==
    {<<P_SplitTime, "SplitTimes", "SplitTime">>,
     <<P_BestSegmentTime, "Segment", "BestSegmentTime">>,
     <<P_SegmentHistoryEntry, "SegmentHistory", "SegmentHistory">>,
     <<P_RunHistoryEntry, "RunHistory", "RunHistory">>}
GatedSinks == {g[3] : g \in GatedSites}
Lookup(m, k) == (CHOOSE p \in m : p[1] = k)[2]
\* The Time a receiver has stored, under the name or the id read from the tag.
StoredIn(r, seg, sink, name, id) ==
    CASE sink = "SplitTime" -> Lookup(seg.comparisons, name)
      [] sink = "BestSegmentTime" -> seg.best_segment_time
      [] sink = "SegmentHistory" -> Lookup(seg.segment_history, id)
      [] sink = "RunHistory" -> r.attempts[Len(r.attempts)].time
\* The combinator called on the open of a gated element.
GrammarFrame(sink) ==
    IF AtLeast(V141) THEN [k |-> "children", cb |-> "Time", sink |-> sink, depth |-> 0]
    ELSE [k |-> "text", cb |-> "time_old", sink |-> sink, depth |-> 0]
EntersSite(g) ==
    /\ Reading("children") /\ stack[Len(stack)].cb = g[2]
    /\ event'.kind = "Start" /\ elems' = g[1]
    /\ result'.status = "pending"
TopSink == stack[Len(stack)].sink
LegacyDelivers ==
    /\ Reading("text") /\ stack[Len(stack)].cb = "time_old" /\ TopSink \in GatedSinks
    /\ event'.kind \in {"End", "Text"} /\ result'.status = "pending"
TimeDelivers ==
    /\ Reading("children") /\ stack[Len(stack)].cb = "Time" /\ TopSink \in GatedSinks
    /\ event'.kind = "End" /\ result'.status = "pending"

\* C25 as stated: every SplitTime, BestSegmentTime, SegmentHistory entry and
\* RunHistory entry of a document is read by time when the version is at
\* least 1.4.1.0 and by time_old otherwise.
C25_EverySite ==
    [][\A g \in GatedSites :
          (event'.kind = "Start" /\ elems' = g[1] /\ result'.status = "pending") =>
              stack'[Len(stack')] = GrammarFrame(g[3])
      ]_vars

\* C25, amended: the version is fixed once the root has been read; at each
\* of the four sites that the parser reads, the element is read by time
\* (RealTime / GameTime children) exactly when the version is at least
\* 1.4.1.0 and by time_old otherwise;
\* time_old stores a Time holding the text's span as real time and no game
\* time, time stores the Time its children filled.
C25_OneGate ==
    [][/\ Reading("base") \/ version' = version
       /\ \A g \in GatedSites :
             EntersSite(g) => stack' = Append(stack, GrammarFrame(g[3]))
       /\ LegacyDelivers =>
             /\ ~AtLeast(V141)
             /\ StoredIn(run', segment', TopSink, str_buf, index)
                   = [real_time |-> time_span_opt(event'.text).v, game_time |-> None]
       /\ TimeDelivers =>
             /\ AtLeast(V141)
             /\ StoredIn(run', segment', TopSink, str_buf, index) = time
      ]_vars

\* A document of version 1.3 whose SplitTime "A" held a text: the legacy
\* grammar stored its span as real time and left game time absent.
C25_Witness ==
    /\ Pend /\ version = V130 /\ elems = P_SplitTime /\ event.kind = "Text"
    /\ \E p \in segment.comparisons :
          p[1] = T_A /\ p[2].real_time # None /\ p[2].game_time = None

\* ---- C27
\* C27: parse is single-pass and terminates.  Every step is taken while
\* parse has not returned (nothing is read or retried after a return),
\* every iteration of a combinator's loop reads exactly one new event, the
\* end of the input ends the parse, and what ends it is a Run or an error.
C27_SinglePass ==
    [][/\ result.status = "pending"
       /\ nread' = nread + 1
       /\ event'.kind = "Eof" => result'.status # "pending"
       /\ result'.status \in {"pending", "ok", "err"}
      ]_vars

\* ---- C28
\* The opens end_tag has counted, when it is the combinator reading.
SkipDepth(st) == IF st[Len(st)].k = "skip" THEN st[Len(st)].depth ELSE 0
\* The names of the elements a parse_children loop may have been started
\* for, by the closure it was given.
ElementsOf(f) ==
    CASE f.cb = "Time" /\ f.sink \in {"SplitTime", "BestSegmentTime"} -> {f.sink}
      [] f.cb = "Time" -> {"Time"}
      [] OTHER -> {f.cb}

\* C28: while parse has not returned, the open elements are those the
\* combinators on the call stack were called for, one each, and those
\* end_tag has counted; a combinator called by a parse_children loop returns
\* to it on reading a close, one level up, with as many elements open as
\* before the child's open; and the close that ends a parse_children loop
\* is the close of the element the loop was started for.
C28_StreamPosition ==
    [][/\ result'.status = "pending" =>
             /\ Len(elems') = Len(stack') - 1 + SkipDepth(stack')
             /\ Len(stack') < Len(stack) =>
                   /\ Len(stack') = Len(stack) - 1
                   /\ event'.kind = "End"
                   /\ stack'[Len(stack')].k = "children"
                   /\ Len(elems') = Len(stack') - 1
       /\ (Reading("children") /\ event'.kind = "End") =>
             /\ event'.name \in ElementsOf(stack[Len(stack)])
             /\ result'.status \in {"pending", "ok"}
      ]_vars

\* A Metadata subtree of a document below 1.6.0.0, skipped with an element
\* inside it: end_tag has returned to the loop over the children of Run on
\* the close of Metadata.
C28_Witness ==
    /\ Pend /\ ~AtLeast(V160)
    /\ event.kind = "End" /\ event.name = "Metadata"
    /\ elems = <<"Run">> /\ Len(stack) = 2 /\ stack[2].k = "children"
    /\ nread >= 5

\* ---- C29
\* What parse returns without having read anything into the Run.
FreshRun == [status |-> "ok", error |-> "none",
             run |-> Some([RunNew EXCEPT !.path = SourcePath])]

\* C29: no event is read once parse has returned; a first element not named
\* Run makes parse return, on its open, a Run as constructed but for the
\* path it was given; and a Run read from a Run root is returned on the
\* root's close.
C29_ForeignRoot ==
    [][/\ result.status = "pending"
       /\ (Reading("base") /\ event'.kind = "Start" /\ event'.name # "Run") =>
             result' = FreshRun /\ elems' = <<event'.name>>
       /\ (result'.status = "ok" /\ result' # FreshRun) =>
             event'.kind = "End" /\ event'.name = "Run" /\ elems' = <<>>
       /\ (result'.status = "ok" /\ event'.kind # "End") =>
             Reading("base") /\ event'.kind = "Start" /\ event'.name # "Run"
      ]_vars

\* A document whose first element, after a comment, is Splits: parse has
\* returned the fresh Run with the root still open.
C29_Witness ==
    /\ result = FreshRun
    /\ elems = <<"Splits">> /\ event.kind = "Start" /\ nread = 2

\* ---- C30
ErrInnerTag == [status |-> "err", error |-> "UnexpectedInnerTag", run |-> None]
\* A document below 1.4.1.0 opens a RealTime or GameTime inside a gated
\* element.
OpensTimeChild(g) ==
    /\ Pend /\ ~AtLeast(V141) /\ elems = g[1]
    /\ event'.kind = "Start" /\ event'.name \in {"RealTime", "GameTime"}
\* A document from 1.4.1.0 on holds a bare text inside a gated element, and
\* closes the element after a bare text with no child time read.
HoldsBareText(g) ==
    /\ Pend /\ AtLeast(V141) /\ elems = g[1] /\ event'.kind = "Text"
ClosesBareText(g) ==
    /\ Pend /\ AtLeast(V141) /\ elems = g[1]
    /\ event.kind = "Text" /\ time = TimeNew /\ event'.kind = "End"

\* C30 as stated: from 1.4.1.0 on a bare text in a SplitTime,
\* BestSegmentTime or history entry is read over without error and the
\* element yields a Time with neither real nor game time; below 1.4.1.0 a
\* RealTime or GameTime child in such an element fails the parse with
\* UnexpectedInnerTag.
C30_Asymmetric ==
    [][\A g \in GatedSites :
          /\ OpensTimeChild(g) => result' = ErrInnerTag
          /\ HoldsBareText(g) => result'.status = "pending" /\ Built' = Built
          /\ ClosesBareText(g) =>
                /\ result'.status = "pending"
                /\ StoredIn(run', segment', g[3], str_buf, index) = TimeNew
      ]_vars

\* C30, amended: the same for the elements the parser reads, which leaves
\* out what end_tag skips: SplitTime below 1.3.0.0 and the entries of
\* RunHistory from 1.5.0.0 on.
C30_AsymmetricWhereRead ==
    [][\A g \in GatedSites :
          ~Reading("skip") =>
             /\ OpensTimeChild(g) => result' = ErrInnerTag
             /\ HoldsBareText(g) => result'.status = "pending" /\ Built' = Built
             /\ ClosesBareText(g) =>
                   /\ result'.status = "pending"
                   /\ StoredIn(run', segment', g[3], str_buf, index) = TimeNew
      ]_vars

\* A BestSegmentTime of a 1.4.1 document holding a bare text, read over by
\* the loop of time with no child time read.
C30_Witness ==
    /\ Pend /\ AtLeast(V141) /\ elems = P_BestSegmentTime
    /\ Reading("children") /\ event.kind = "Text" /\ time = TimeNew

====
